---- MODULE Spec2Model ----
(***************************************************************************)
(* Model of the real-time subscription session of coinbase-advanced:       *)
(* src/src/websocket/channels.rs (channel catalog) and                     *)
(* src/src/websocket/client.rs (registry, client, reconnect loop, stream). *)
(***************************************************************************)
EXTENDS Integers, Sequences, FiniteSets, TLC

(***************************************************************************)
(* Bounds of the model.                                                    *)
(***************************************************************************)
\* longest product id vector an entry of the registry may grow to
MaxVecLen == 2
\* largest max_retries a client is built with in the session specification
MaxRetries == 2
\* largest max_retries in the backoff specification
MaxBackoffRetries == 8
\* number of invocations of reconnect() in one behaviour
MaxReconnects == 1
\* number of caller calls that race with a replay in one behaviour
MaxRacingCalls == 1
\* number of frames and socket events that arrive in one behaviour
MaxFrames == 3
\* number of entries the registry holds in the catalog specification
MaxEntries == 3
\* number of calls made on one builder, build() not counted
MaxBuilderCalls == 3
\* a token is TokenUnit units: the resolution at which a token count is held
TokenUnit == 2
\* largest capacity of a token bucket, in tokens
MaxCapacity == 2
\* number of ticks the clock advances in one behaviour
MaxTime == 3
\* number of try_consume calls made in one behaviour
MaxLimiterCalls == 4

(***************************************************************************)
(* Channel catalog: src/src/websocket/channels.rs                          *)
(***************************************************************************)
\* enum EndpointType
EndpointTypes == {"Public", "User"}

\* the variants of enum Channel that carry a product_ids vector
ScopedKinds == {"Ticker", "TickerBatch", "Level2", "Candles", "MarketTrades"}

\* the variants of enum Channel without fields
UnscopedKinds == {"Heartbeats", "Status", "User", "FuturesBalanceSummary"}

\* enum Channel: the variant tags
ChannelKinds == ScopedKinds \cup UnscopedKinds

\* product identifiers used as inputs
Products == {"BTC-USD", "ETH-USD"}

\* a value of enum Channel: its variant and (for scoped variants) its vector
Chan(kind, ids) == [kind |-> kind, product_ids |-> ids]

\* Channel::product_ids
product_ids(channel) ==
    IF channel.kind \in ScopedKinds THEN channel.product_ids ELSE <<>>

\* Channel::endpoint_type
endpoint_type(channel) ==
    IF channel.kind \in {"User", "FuturesBalanceSummary"} THEN "User" ELSE "Public"

\* a requires_auth that forgets the FuturesBalanceSummary variant
requires_auth_UserOnly(channel) ==
    channel.kind = "User"

\* Channel::requires_auth
requires_auth(channel) ==
    channel.kind \in {"User", "FuturesBalanceSummary"}

\* impl From<&Channel> for ChannelName (serde snake_case names)
ChannelName(channel) ==
    CASE channel.kind = "Heartbeats" -> "heartbeats"
      [] channel.kind = "Status" -> "status"
      [] channel.kind = "Ticker" -> "ticker"
      [] channel.kind = "TickerBatch" -> "ticker_batch"
      [] channel.kind = "Level2" -> "level2"
      [] channel.kind = "Candles" -> "candles"
      [] channel.kind = "MarketTrades" -> "market_trades"
      [] channel.kind = "User" -> "user"
      [] channel.kind = "FuturesBalanceSummary" -> "futures_balance_summary"

(***************************************************************************)
(* Helpers on sequences.                                                   *)
(***************************************************************************)
Range(s) == {s[i] : i \in 1..Len(s)}

NoDuplicates(s) == \A i, j \in 1..Len(s) : s[i] = s[j] => i = j

Min(a, b) == IF a <= b THEN a ELSE b

\* Vec::retain(|id| !product_ids.contains(id))
Retain(ids, pids) == SelectSeq(ids, LAMBDA id : id \notin Range(pids))

(***************************************************************************)
(* Subscription registry: struct Subscriptions, client.rs 93-133.          *)
(* A HashMap<ChannelName, Vec<String>> is a function from the set of its   *)
(* keys to sequences of product ids.                                       *)
(***************************************************************************)
\* Subscriptions::new
Subscriptions_new == [public |-> <<>>, user |-> <<>>]

\* the field of Subscriptions that `match channel.endpoint_type()` selects
MapField(endpoint) == IF endpoint = "Public" THEN "public" ELSE "user"

\* HashMap::entry(name).or_default().extend(ids)
MapExtend(map, name, ids) ==
    [n \in (DOMAIN map) \cup {name} |->
        IF n = name
        THEN (IF name \in DOMAIN map THEN map[name] ELSE <<>>) \o ids
        ELSE map[n]]

\* HashMap::remove(name)
MapRemove(map, name) == [n \in (DOMAIN map) \ {name} |-> map[n]]

\* an add that unions the ids into the entry (what a set-valued entry would do)
add_Union(subs, channel) ==
    LET f == MapField(endpoint_type(channel))
        name == ChannelName(channel)
        old == IF name \in DOMAIN subs[f] THEN subs[f][name] ELSE <<>>
        fresh == SelectSeq(product_ids(channel), LAMBDA id : id \notin Range(old))
    IN  [subs EXCEPT ![f] = MapExtend(subs[f], name, fresh)]

\* an add that replaces the entry's vector instead of extending it
add_Replace(subs, channel) ==
    LET f == MapField(endpoint_type(channel))
        name == ChannelName(channel)
    IN  [subs EXCEPT ![f] = MapExtend(MapRemove(subs[f], name), name, product_ids(channel))]

\* Subscriptions::add
add(subs, channel) ==
    LET f == MapField(endpoint_type(channel))
    IN  [subs EXCEPT ![f] = MapExtend(subs[f], ChannelName(channel), product_ids(channel))]

\* a remove that deletes the entry whatever ids remain
remove_DropsEntry(subs, channel) ==
    LET f == MapField(endpoint_type(channel))
    IN  [subs EXCEPT ![f] = MapRemove(subs[f], ChannelName(channel))]

\* a remove that inserts an (empty) entry when the key is absent
remove_CreatesEntry(subs, channel) ==
    LET f == MapField(endpoint_type(channel))
        name == ChannelName(channel)
        old == IF name \in DOMAIN subs[f] THEN subs[f][name] ELSE <<>>
        ids == Retain(old, product_ids(channel))
    IN  IF ids = <<>> /\ name \in DOMAIN subs[f]
        THEN [subs EXCEPT ![f] = MapRemove(subs[f], name)]
        ELSE [subs EXCEPT ![f] = MapExtend(MapRemove(subs[f], name), name, ids)]

\* Subscriptions::remove
remove(subs, channel) ==
    LET f == MapField(endpoint_type(channel))
        name == ChannelName(channel)
    IN  IF name \in DOMAIN subs[f]
        THEN LET ids == Retain(subs[f][name], product_ids(channel))
             IN  IF ids = <<>>
                 THEN [subs EXCEPT ![f] = MapRemove(subs[f], name)]
                 ELSE [subs EXCEPT ![f] = [subs[f] EXCEPT ![name] = ids]]
        ELSE subs

(***************************************************************************)
(* State.                                                                  *)
(***************************************************************************)
VARIABLES
    credentials,     \* WebSocketClient.credentials.is_some()
    auto_reconnect,  \* WebSocketClient.auto_reconnect
    max_retries,     \* WebSocketClient.max_retries
    built,           \* FALSE while the three fields above are the WebSocketClientBuilder's
    builder_calls,   \* history: the builder calls of a modelled construction, in order
    public_sink,     \* WebSocketClient.public_sink: "None", or Some(sink) of a socket that is "Up" or "Down"
    user_sink,       \* WebSocketClient.user_sink
    subscriptions,   \* WebSocketClient.subscriptions
    accepted,        \* history: per key the id set of the calls that returned Ok
    issued,          \* history: per key the id set of all calls issued
    last,            \* history: the last call, its inputs, its result and its effects
    before,          \* history: the registry before the last add or remove of SpecRegistry
    rc_pc,           \* reconnect(): "idle", "sleep", "attempt", "resubscribe", "replay" or "done"
    rc_result,       \* reconnect(): what it returned
    retry_count,     \* reconnect(): let mut retry_count
    delay,           \* reconnect(): let mut delay, in seconds
    rc_queue,        \* resubscribe(): channels_to_resubscribe still to send
    rc_calls,        \* history: number of invocations of reconnect()
    racing,          \* history: number of caller calls made during a replay
    attempts,        \* history: attempt_reconnect calls of this invocation
    slept,           \* history: the delays waited by this invocation, in order
    rc_snapshot,     \* history: the registry when resubscribe() collected the channels
    rc_sent,         \* history: the frames written by the replay of this invocation
    public_stream,   \* MessageStream.public_stream: "None" or "Some"
    user_stream,     \* MessageStream.user_stream: "None" or "Some"
    inbound,         \* per endpoint, what its socket's read half will return, in arrival order
    arrived,         \* history: number of frames and socket events that have arrived
    wire,            \* history: the source and kind of every arrival, in order; arrival k has id k
    yielded,         \* history: the items poll_next has returned, in order
    polled,          \* history: the last return of poll_next: "Item", "Pending", "End" ("none" before)
    bucket,          \* RateLimiter.bucket: the TokenBucket inside the mutex
    now,             \* Instant::now(), in ticks
    bucket_lock,     \* the task that holds the mutex of RateLimiter.bucket, "none" if it is free
    lim_pc,          \* per task, its position in try_acquire() or acquire()
    lim_wake,        \* per task, the tick at which its tokio::time::sleep ends
    lim_log,         \* history: the try_consume calls made, in order
    caller_pc,       \* per concurrent caller, its position in subscribe_one / unsubscribe_one
    caller_call,     \* per concurrent caller, its call: the operation, the channel and the result
    sink_order       \* history: the control frames of the concurrent callers, in the order written

cfgVars == <<credentials, auto_reconnect, max_retries, built, builder_calls>>
sinkVars == <<public_sink, user_sink>>
regVars == <<subscriptions, accepted, issued>>
rcVars == <<rc_pc, rc_result, retry_count, delay, rc_queue, rc_calls, racing, attempts, slept,
            rc_snapshot, rc_sent>>
streamVars == <<public_stream, user_stream, inbound, arrived, wire, yielded, polled>>
limiterVars == <<bucket, now, bucket_lock, lim_pc, lim_wake, lim_log>>
callerVars == <<caller_pc, caller_call, sink_order>>

vars == <<credentials, auto_reconnect, max_retries, built, builder_calls, public_sink, user_sink,
          subscriptions, accepted, issued, last, before,
          rc_pc, rc_result, retry_count, delay, rc_queue, rc_calls, racing, attempts, slept,
          rc_snapshot, rc_sent,
          public_stream, user_stream, inbound, arrived, wire, yielded, polled,
          bucket, now, bucket_lock, lim_pc, lim_wake, lim_log,
          caller_pc, caller_call, sink_order>>

(***************************************************************************)
(* The registry the specification describes: per key a set of product ids. *)
(* Used only to state the claims.                                          *)
(***************************************************************************)
SetAdd(g, channel) ==
    LET f == MapField(endpoint_type(channel))
        name == ChannelName(channel)
        old == IF name \in DOMAIN g[f] THEN g[f][name] ELSE {}
    IN  [g EXCEPT ![f] = [n \in (DOMAIN g[f]) \cup {name} |->
                             IF n = name THEN old \cup Range(product_ids(channel))
                             ELSE g[f][n]]]

SetRemove(g, channel) ==
    LET f == MapField(endpoint_type(channel))
        name == ChannelName(channel)
    IN  IF name \notin DOMAIN g[f] THEN g
        ELSE LET rest == g[f][name] \ Range(product_ids(channel))
             IN  IF rest = {}
                 THEN [g EXCEPT ![f] = [n \in (DOMAIN g[f]) \ {name} |-> g[f][n]]]
                 ELSE [g EXCEPT ![f] = [g[f] EXCEPT ![name] = rest]]

\* the registry read as sets: the keys of each map and the id set of each entry
AsSets(subs) ==
    [f \in {"public", "user"} |-> [n \in DOMAIN subs[f] |-> Range(subs[f][n])]]

\* the entry of a channel's key, and whether the key is present
HasEntry(subs, channel) ==
    ChannelName(channel) \in DOMAIN subs[MapField(endpoint_type(channel))]

EntryOf(subs, channel) ==
    subs[MapField(endpoint_type(channel))][ChannelName(channel)]

(***************************************************************************)
(* Inputs.                                                                 *)
(***************************************************************************)
\* the channels callers pass
Channels ==
    {Chan("Ticker", ids) : ids \in {<<>>, <<"BTC-USD">>, <<"ETH-USD">>, <<"BTC-USD", "ETH-USD">>}}
    \cup {Chan("Level2", <<"BTC-USD">>)}
    \cup {Chan(k, <<>>) : k \in {"Heartbeats", "User", "FuturesBalanceSummary"}}

\* the vector of an entry stays within the bound of the model
WithinBound(subs) ==
    \A f \in {"public", "user"} : \A n \in DOMAIN subs[f] : Len(subs[f][n]) <= MaxVecLen

\* a client that build() has returned, its construction not recorded
AfterBuild ==
    /\ built = TRUE
    /\ builder_calls = <<>>

\* the callers that use one client concurrently
Callers == {"a", "b"}

\* no call of a concurrent caller
NoCallerCall == [op |-> "none", channel |-> [kind |-> "none", product_ids |-> <<>>], result |-> "none"]

\* no concurrent caller is inside a call
NoCallers ==
    /\ caller_pc = [k \in Callers |-> "idle"]
    /\ caller_call = [k \in Callers |-> NoCallerCall]
    /\ sink_order = <<>>

\* the tasks that share one RateLimiter
LimiterTasks == {"t1", "t2"}

\* no rate limiter is in use: the WebSocket client has none
NoLimiter ==
    /\ bucket = [max_tokens |-> 0, refill_rate |-> 0, tokens |-> 0, last_update |-> 0]
    /\ now = 0
    /\ bucket_lock = "none"
    /\ lim_pc = [t \in LimiterTasks |-> "idle"]
    /\ lim_wake = [t \in LimiterTasks |-> 0]
    /\ lim_log = <<>>

NoCall ==
    [op |-> "none", channels |-> <<>>, result |-> "Ok", frames |-> <<>>, signs |-> 0]

\* reconnect() has not been called
RcIdle ==
    /\ rc_pc = "idle"
    /\ rc_result = "none"
    /\ retry_count = 0
    /\ delay = 0
    /\ rc_queue = <<>>
    /\ rc_calls = 0
    /\ racing = 0
    /\ attempts = 0
    /\ slept = <<>>
    /\ rc_snapshot = Subscriptions_new
    /\ rc_sent = <<>>

\* no MessageStream exists: connect() has not returned one
NoStream ==
    /\ public_stream = "None"
    /\ user_stream = "None"
    /\ inbound = [Public |-> <<>>, User |-> <<>>]
    /\ arrived = 0
    /\ wire = <<>>
    /\ yielded = <<>>
    /\ polled = "none"

(***************************************************************************)
(* Init: the state after WebSocketClientBuilder::build.                    *)
(***************************************************************************)
Init ==
    /\ credentials \in BOOLEAN
    /\ auto_reconnect = FALSE
    /\ max_retries = 0
    /\ AfterBuild
    /\ NoLimiter
    /\ NoCallers
    /\ public_sink = "None"
    /\ user_sink = "None"
    /\ subscriptions = Subscriptions_new
    /\ accepted = Subscriptions_new
    /\ issued = Subscriptions_new
    /\ last = NoCall
    /\ before = Subscriptions_new
    /\ RcIdle
    /\ NoStream

(***************************************************************************)
(* Registry specification: add and remove applied to the registry alone.   *)
(***************************************************************************)
InitRegistry ==
    /\ credentials = FALSE
    /\ auto_reconnect = FALSE
    /\ max_retries = 0
    /\ AfterBuild
    /\ NoLimiter
    /\ NoCallers
    /\ public_sink = "None"
    /\ user_sink = "None"
    /\ subscriptions = Subscriptions_new
    /\ accepted = Subscriptions_new
    /\ issued = Subscriptions_new
    /\ last = NoCall
    /\ before = Subscriptions_new
    /\ RcIdle
    /\ NoStream

RegAdd(channel) ==
    /\ WithinBound(add(subscriptions, channel))
    /\ subscriptions' = add(subscriptions, channel)
    /\ accepted' = SetAdd(accepted, channel)
    /\ issued' = SetAdd(issued, channel)
    /\ last' = [NoCall EXCEPT !.op = "add", !.channels = <<channel>>]
    /\ before' = subscriptions
    /\ UNCHANGED <<cfgVars, limiterVars, callerVars, sinkVars, rcVars, streamVars>>

RegRemove(channel) ==
    /\ subscriptions' = remove(subscriptions, channel)
    /\ accepted' = SetRemove(accepted, channel)
    /\ issued' = SetRemove(issued, channel)
    /\ last' = [NoCall EXCEPT !.op = "remove", !.channels = <<channel>>]
    /\ before' = subscriptions
    /\ UNCHANGED <<cfgVars, limiterVars, callerVars, sinkVars, rcVars, streamVars>>

NextRegistry ==
    \/ \E channel \in Channels : RegAdd(channel)
    \/ \E channel \in Channels : RegRemove(channel)

SpecRegistry == InitRegistry /\ [][NextRegistry]_vars

(***************************************************************************)
(* Claims about the registry (SpecRegistry).                               *)
(***************************************************************************)
\* s with the elements of set S dropped, the others kept in place
RECURSIVE Without(_, _)
Without(s, S) ==
    IF s = <<>> THEN <<>>
    ELSE IF Head(s) \in S THEN Without(Tail(s), S)
    ELSE <<Head(s)>> \o Without(Tail(s), S)

\* the ids a key holds, {} when the key is absent
IdsOf(subs, channel) ==
    IF HasEntry(subs, channel) THEN Range(EntryOf(subs, channel)) ELSE {}

\* every key but the channel's own is as it was before the last call
OtherKeysUntouched(channel) ==
    LET f == MapField(endpoint_type(channel))
        name == ChannelName(channel)
    IN  /\ \A g \in {"public", "user"} \ {f} : subscriptions[g] = before[g]
        /\ (DOMAIN subscriptions[f]) \ {name} = (DOMAIN before[f]) \ {name}
        /\ \A n \in (DOMAIN before[f]) \ {name} : subscriptions[f][n] = before[f][n]

\* C4: add is an idempotent set union: every entry stores each product id once,
\* after add(c) the entry of c's key holds exactly the ids it held before plus
\* those of c, and an add of ids the entry already holds leaves the registry as
\* it was (add(c); add(c) equals add(c)).
C4_AddIsIdempotentUnion ==
    /\ \A f \in {"public", "user"} : \A n \in DOMAIN subscriptions[f] :
           NoDuplicates(subscriptions[f][n])
    /\ last.op = "add" =>
           LET c == last.channels[1]
           IN  /\ HasEntry(subscriptions, c)
               /\ IdsOf(subscriptions, c) = IdsOf(before, c) \cup Range(product_ids(c))
               /\ OtherKeysUntouched(c)
               /\ (HasEntry(before, c) /\ Range(product_ids(c)) \subseteq IdsOf(before, c))
                      => subscriptions = before

\* C5: remove(c) subtracts c's product ids from the entry of c's key, keeps the
\* remaining ids of that entry in place and every other key untouched; the entry
\* is deleted when no id remains (always so for an unscoped channel).
C5_RemoveSubtracts ==
    (last.op = "remove" /\ HasEntry(before, last.channels[1])) =>
        LET c == last.channels[1]
            rest == Without(EntryOf(before, c), Range(product_ids(c)))
        IN  /\ OtherKeysUntouched(c)
            /\ IF rest = <<>>
               THEN ~HasEntry(subscriptions, c)
               ELSE HasEntry(subscriptions, c) /\ EntryOf(subscriptions, c) = rest
            /\ (c.kind \in UnscopedKinds => ~HasEntry(subscriptions, c))

\* C5 witness: remove(Ticker{BTC-USD}) on a Ticker entry [BTC-USD, ETH-USD], with
\* another key registered, has left [ETH-USD].
C5_Witness ==
    /\ last.op = "remove"
    /\ last.channels = <<Chan("Ticker", <<"BTC-USD">>)>>
    /\ "ticker" \in DOMAIN before.public
    /\ before.public["ticker"] = <<"BTC-USD", "ETH-USD">>
    /\ "heartbeats" \in DOMAIN before.public
    /\ "ticker" \in DOMAIN subscriptions.public
    /\ subscriptions.public["ticker"] = <<"ETH-USD">>

\* C6: remove of a channel whose key has no entry leaves the whole registry
\* unchanged.
C6_RemoveAbsentIsNoOp ==
    (last.op = "remove" /\ ~HasEntry(before, last.channels[1])) =>
        subscriptions = before

\* C6 witness: a remove of an absent key was applied to a non-empty registry.
C6_Witness ==
    /\ last.op = "remove"
    /\ ~HasEntry(before, last.channels[1])
    /\ before.public # <<>>
    /\ before.user # <<>>

(***************************************************************************)
(* The client: WebSocketClient, client.rs 145-305.                         *)
(* A call works on a record acc = [result, sinks, subs, frames, signs]:    *)
(* the result so far, the two sinks, the registry, the frames written to   *)
(* the sinks by this call and the number of generate_ws_jwt calls made.    *)
(* The environment's part in a call is a record o = [sign, io]: whether    *)
(* the signature succeeds and whether the socket outlives the write.       *)
(***************************************************************************)
Outcomes == [sign : BOOLEAN, io : BOOLEAN]

Sinks == [Public |-> public_sink, User |-> user_sink]

\* WebSocketClient::generate_jwt: Err without credentials, else generate_ws_jwt
generate_jwt(creds, signOk) ==
    IF ~creds THEN [result |-> "CredentialsRequired", signs |-> 0]
    ELSE IF signOk THEN [result |-> "Ok", signs |-> 1]
    ELSE [result |-> "JwtError", signs |-> 1]

\* struct SubscriptionMessage; jwt is 0 for None, else the number of the token
\* among those minted by this call; timestamp is whether the field is Some
SubscriptionMessage(action, channel, jwt, timestamp) ==
    [type |-> action, product_ids |-> product_ids(channel),
     channel |-> ChannelName(channel), jwt |-> jwt, timestamp |-> timestamp]

\* a build_subscription_message that signs once and reuses the token
build_subscription_message_CachedJwt(creds, channel, action, signOk, signsSoFar) ==
    IF requires_auth(channel)
    THEN LET j == IF signsSoFar = 0 THEN generate_jwt(creds, signOk)
                  ELSE [result |-> "Ok", signs |-> 0]
         IN  [result |-> j.result, signs |-> j.signs,
              msg |-> SubscriptionMessage(action, channel, 1, FALSE)]
    ELSE [result |-> "Ok", signs |-> 0,
          msg |-> SubscriptionMessage(action, channel, 0, TRUE)]

\* WebSocketClient::build_subscription_message
build_subscription_message(creds, channel, action, signOk, signsSoFar) ==
    IF requires_auth(channel)
    THEN LET j == generate_jwt(creds, signOk)
         IN  [result |-> j.result, signs |-> j.signs,
              msg |-> SubscriptionMessage(action, channel, signsSoFar + 1, FALSE)]
    ELSE [result |-> "Ok", signs |-> 0,
          msg |-> SubscriptionMessage(action, channel, 0, TRUE)]

\* a send_message that takes an absent sink for a connected one
send_message_NoSinkCheck(sinks, endpoint, io) ==
    IF sinks[endpoint] = "Down" \/ (sinks[endpoint] = "Up" /\ ~io)
    THEN [result |-> "SendFailed", sinks |-> [sinks EXCEPT ![endpoint] = "Down"]]
    ELSE [result |-> "Ok", sinks |-> sinks]

\* WebSocketClient::send_message
send_message(sinks, endpoint, io) ==
    IF sinks[endpoint] = "None"
    THEN [result |-> "NotConnected", sinks |-> sinks]
    ELSE IF sinks[endpoint] = "Down" \/ ~io
    THEN [result |-> "SendFailed", sinks |-> [sinks EXCEPT ![endpoint] = "Down"]]
    ELSE [result |-> "Ok", sinks |-> sinks]

\* build the frame, write it, and on success apply `track` to the registry
SendThenTrack(creds, acc, channel, action, o, tracked) ==
    LET b == build_subscription_message(creds, channel, action, o.sign, acc.signs)
        s == send_message(acc.sinks, endpoint_type(channel), o.io)
    IN  IF b.result # "Ok"
        THEN [acc EXCEPT !.result = b.result, !.signs = @ + b.signs]
        ELSE IF s.result # "Ok"
        THEN [acc EXCEPT !.result = s.result, !.signs = @ + b.signs, !.sinks = s.sinks]
        ELSE [acc EXCEPT !.signs = @ + b.signs,
                         !.frames = Append(@, [endpoint |-> endpoint_type(channel), msg |-> b.msg]),
                         !.subs = tracked]

\* a subscribe_one without the credentials check of lines 201-206
subscribe_one_NoAuthCheck(creds, acc, channel, o) ==
    SendThenTrack(creds, acc, channel, "subscribe", o, add(acc.subs, channel))

\* a subscribe_one that tracks the subscription before the frame is written
subscribe_one_TrackFirst(creds, acc, channel, o) ==
    IF requires_auth(channel) /\ ~creds
    THEN [acc EXCEPT !.result = "AuthRequired"]
    ELSE [SendThenTrack(creds, acc, channel, "subscribe", o, add(acc.subs, channel))
             EXCEPT !.subs = add(acc.subs, channel)]

\* WebSocketClient::subscribe_one
subscribe_one(creds, acc, channel, o) ==
    IF requires_auth(channel) /\ ~creds
    THEN [acc EXCEPT !.result = "AuthRequired"]
    ELSE SendThenTrack(creds, acc, channel, "subscribe", o, add(acc.subs, channel))

\* WebSocketClient::unsubscribe_one
unsubscribe_one(creds, acc, channel, o) ==
    SendThenTrack(creds, acc, channel, "unsubscribe", o, remove(acc.subs, channel))

\* a subscribe that goes on with the rest of the slice after a failure
RECURSIVE subscribe_ContinuesPastFailure(_, _, _, _)
subscribe_ContinuesPastFailure(creds, acc, channels, outs) ==
    IF channels = <<>> THEN acc
    ELSE subscribe_ContinuesPastFailure(creds,
             subscribe_one(creds, acc, Head(channels), Head(outs)),
             Tail(channels), Tail(outs))

\* WebSocketClient::subscribe: subscribe_one(channel).await? over the slice
RECURSIVE subscribe(_, _, _, _)
subscribe(creds, acc, channels, outs) ==
    IF channels = <<>> THEN acc
    ELSE LET a == subscribe_one(creds, acc, Head(channels), Head(outs))
         IN  IF a.result # "Ok" THEN a
             ELSE subscribe(creds, a, Tail(channels), Tail(outs))

\* WebSocketClient::unsubscribe: unsubscribe_one(channel).await? over the slice
RECURSIVE unsubscribe(_, _, _, _)
unsubscribe(creds, acc, channels, outs) ==
    IF channels = <<>> THEN acc
    ELSE LET a == unsubscribe_one(creds, acc, Head(channels), Head(outs))
         IN  IF a.result # "Ok" THEN a
             ELSE unsubscribe(creds, a, Tail(channels), Tail(outs))

\* the state a call starts from
Start == [result |-> "Ok", sinks |-> Sinks, subs |-> subscriptions, frames |-> <<>>, signs |-> 0]

RECURSIVE SetAddAll(_, _)
SetAddAll(g, channels) ==
    IF channels = <<>> THEN g ELSE SetAddAll(SetAdd(g, Head(channels)), Tail(channels))

RECURSIVE SetRemoveAll(_, _)
SetRemoveAll(g, channels) ==
    IF channels = <<>> THEN g ELSE SetRemoveAll(SetRemove(g, Head(channels)), Tail(channels))

\* the slices callers pass: every single channel, and pairs
SessionChannels ==
    {Chan("Ticker", <<"BTC-USD">>), Chan("Ticker", <<"ETH-USD">>),
     Chan("Heartbeats", <<>>), Chan("User", <<>>), Chan("FuturesBalanceSummary", <<>>)}

Batches == {<<c>> : c \in SessionChannels}

\* the outcomes that differ for a slice: a signature is only asked for an
\* auth-requiring channel of a client with credentials, and a socket that is
\* lost before the first write of a call is lost by SocketDrop
OutcomesFor(channels) ==
    {outs \in [1..Len(channels) -> Outcomes] :
        \A i \in 1..Len(channels) :
            /\ (~(credentials /\ requires_auth(channels[i]))) => outs[i].sign
            /\ i = 1 => outs[i].io}

(***************************************************************************)
(* Actions of the session.                                                 *)
(***************************************************************************)
\* a connect that opens the user endpoint whether or not credentials are set
Connect_AlwaysOpensUser(pubOk, userOk) ==
    /\ public_sink' = IF pubOk THEN "Up" ELSE public_sink
    /\ user_sink' = IF pubOk /\ userOk THEN "Up" ELSE user_sink
    /\ last' = [NoCall EXCEPT !.op = "connect",
                   !.result = IF pubOk /\ userOk THEN "Ok" ELSE "ConnectFailed"]
    /\ IF pubOk /\ userOk
       THEN /\ public_stream' = "Some"
            /\ user_stream' = "Some"
            /\ inbound' = [Public |-> <<>>, User |-> <<>>]
            /\ yielded' = <<>>
            /\ polled' = "none"
            /\ UNCHANGED <<arrived, wire>>
       ELSE UNCHANGED streamVars
    /\ UNCHANGED <<cfgVars, limiterVars, callerVars, regVars, before, rcVars>>

\* WebSocketClient::connect; pubOk, userOk: whether connect_async succeeds
Connect(pubOk, userOk) ==
    /\ public_sink' = IF pubOk THEN "Up" ELSE public_sink
    /\ user_sink' = IF pubOk /\ credentials /\ userOk THEN "Up" ELSE user_sink
    /\ last' = [NoCall EXCEPT !.op = "connect",
                   !.result = IF pubOk /\ (credentials => userOk) THEN "Ok" ELSE "ConnectFailed"]
    /\ IF pubOk /\ (credentials => userOk)
       THEN /\ public_stream' = "Some"
            /\ user_stream' = IF credentials THEN "Some" ELSE "None"
            /\ inbound' = [Public |-> <<>>, User |-> <<>>]
            /\ yielded' = <<>>
            /\ polled' = "none"
            /\ UNCHANGED <<arrived, wire>>
       ELSE UNCHANGED streamVars
    /\ UNCHANGED <<cfgVars, limiterVars, callerVars, regVars, before, rcVars>>

\* WebSocketClient::subscribe(channels)
Subscribe(channels, outs) ==
    LET r == subscribe(credentials, Start, channels, outs)
    IN  /\ WithinBound(r.subs)
        /\ subscriptions' = r.subs
        /\ public_sink' = r.sinks.Public
        /\ user_sink' = r.sinks.User
        /\ accepted' = SetAddAll(accepted, SubSeq(channels, 1, Len(r.frames)))
        /\ issued' = SetAddAll(issued, channels)
        /\ last' = [op |-> "subscribe", channels |-> channels, result |-> r.result,
                    frames |-> r.frames, signs |-> r.signs]
        /\ UNCHANGED <<cfgVars, limiterVars, callerVars, before, rcVars, streamVars>>

\* WebSocketClient::unsubscribe(channels): its effect on the client
UnsubscribeCall(channels, outs) ==
    LET r == unsubscribe(credentials, Start, channels, outs)
    IN  /\ subscriptions' = r.subs
        /\ public_sink' = r.sinks.Public
        /\ user_sink' = r.sinks.User
        /\ accepted' = SetRemoveAll(accepted, SubSeq(channels, 1, Len(r.frames)))
        /\ issued' = SetRemoveAll(issued, channels)
        /\ last' = [op |-> "unsubscribe", channels |-> channels, result |-> r.result,
                    frames |-> r.frames, signs |-> r.signs]
        /\ UNCHANGED <<cfgVars, limiterVars, callerVars, before>>

\* WebSocketClient::unsubscribe(channels)
Unsubscribe(channels, outs) ==
    /\ UnsubscribeCall(channels, outs)
    /\ UNCHANGED <<rcVars, streamVars>>

\* the peer or the network closes the socket of an endpoint
SocketDrop(endpoint) ==
    /\ Sinks[endpoint] = "Up"
    /\ public_sink' = IF endpoint = "Public" THEN "Down" ELSE public_sink
    /\ user_sink' = IF endpoint = "User" THEN "Down" ELSE user_sink
    /\ UNCHANGED <<cfgVars, limiterVars, callerVars, regVars, last, before, rcVars, streamVars>>

Next ==
    \/ \E pubOk, userOk \in BOOLEAN : Connect(pubOk, userOk)
    \/ \E channels \in Batches : \E outs \in OutcomesFor(channels) : Subscribe(channels, outs)
    \/ \E channels \in Batches : \E outs \in OutcomesFor(channels) : Unsubscribe(channels, outs)
    \/ \E endpoint \in EndpointTypes : SocketDrop(endpoint)

Spec == Init /\ [][Next]_vars

(***************************************************************************)
(* Claims about the session (Spec).                                        *)
(***************************************************************************)
\* a step that is a call of subscribe on one auth-requiring channel
SubscribeAuthStep ==
    \E channels \in {<<Chan("User", <<>>)>>, <<Chan("FuturesBalanceSummary", <<>>)>>} :
        \E outs \in OutcomesFor(channels) : Subscribe(channels, outs)

\* C1: without credentials, subscribe on User or FuturesBalanceSummary fails at
\* once with the authentication error, in every connection state: no token is
\* signed, no frame is written, both sinks and the registry stay as they were.
C1_AuthRequiredWithoutNetwork ==
    [][(/\ ~credentials
        /\ SubscribeAuthStep)
       => (/\ last'.result = "AuthRequired"
           /\ last'.signs = 0
           /\ last'.frames = <<>>
           /\ public_sink' = public_sink
           /\ user_sink' = user_sink
           /\ subscriptions' = subscriptions)]_vars

\* C1 witness: a client without credentials, connected and with a public
\* subscription, was refused a subscribe to FuturesBalanceSummary.
C1_Witness ==
    /\ ~credentials
    /\ last.op = "subscribe"
    /\ last.channels = <<Chan("FuturesBalanceSummary", <<>>)>>
    /\ last.result = "AuthRequired"
    /\ public_sink = "Up"
    /\ subscriptions.public # <<>>

\* C2: a subscribe or unsubscribe of one channel that returns an error leaves
\* the registry as it was (so does every step that is not such a call); the
\* registry changes only in a subscribe or unsubscribe that returned Ok and
\* whose control frame was written to the sink of the channel's endpoint.
C2_RegistryUpdatedAfterSend ==
    [][/\ last'.result # "Ok" => subscriptions' = subscriptions
       /\ subscriptions' # subscriptions =>
              /\ last'.op \in {"subscribe", "unsubscribe"}
              /\ last'.result = "Ok"
              /\ Len(last'.frames) = 1
              /\ last'.frames[1].endpoint = endpoint_type(last'.channels[1])
              /\ last'.frames[1].msg.type = last'.op
              /\ last'.frames[1].msg.channel = ChannelName(last'.channels[1])]_vars

\* C2 witness: a subscribe to Ticker failed in the write to a lost socket and
\* the registry holds no Ticker entry.
C2_Witness ==
    /\ last.op = "subscribe"
    /\ last.channels = <<Chan("Ticker", <<"BTC-USD">>)>>
    /\ last.result = "SendFailed"
    /\ "ticker" \notin DOMAIN subscriptions.public
    /\ subscriptions.public # <<>>

CallOnUnconnectedStep ==
    /\ last'.op \in {"subscribe", "unsubscribe"}
    /\ Sinks[endpoint_type(last'.channels[1])] # "Up"
    /\ public_sink' = public_sink
    /\ user_sink' = user_sink

\* the errors raised before send_message is reached
BuildErrors == {"AuthRequired", "CredentialsRequired", "JwtError"}

InitialDelaySecs == 1

\* Duration::from_secs(60), the cap of the delay
MaxDelaySecs == 60

\* a delay update that doubles without the cap
NextDelay_NoCap(d) == d * 2

\* delay = std::cmp::min(delay * 2, Duration::from_secs(60))
NextDelay(d) == Min(d * 2, MaxDelaySecs)

\* a loop test that is off by one
LoopContinues_OffByOne(count, max) == count <= max

\* while retry_count < self.max_retries
LoopContinues(count, max) == count < max

\* a channel_from_name that loses the product ids of Ticker
channel_from_name_NoIds(name, ids) ==
    CASE name = "heartbeats" -> Chan("Heartbeats", <<>>)
      [] name = "status" -> Chan("Status", <<>>)
      [] name = "ticker" -> Chan("Ticker", <<>>)
      [] name = "ticker_batch" -> Chan("TickerBatch", ids)
      [] name = "level2" -> Chan("Level2", ids)
      [] name = "candles" -> Chan("Candles", ids)
      [] name = "market_trades" -> Chan("MarketTrades", ids)
      [] name = "user" -> Chan("User", <<>>)
      [] name = "futures_balance_summary" -> Chan("FuturesBalanceSummary", <<>>)

\* WebSocketClient::channel_from_name (ChannelName::Subscriptions, which maps
\* to None, is never a key: add takes its keys from Channel values)
channel_from_name(name, ids) ==
    CASE name = "heartbeats" -> Chan("Heartbeats", <<>>)
      [] name = "status" -> Chan("Status", <<>>)
      [] name = "ticker" -> Chan("Ticker", ids)
      [] name = "ticker_batch" -> Chan("TickerBatch", ids)
      [] name = "level2" -> Chan("Level2", ids)
      [] name = "candles" -> Chan("Candles", ids)
      [] name = "market_trades" -> Chan("MarketTrades", ids)
      [] name = "user" -> Chan("User", <<>>)
      [] name = "futures_balance_summary" -> Chan("FuturesBalanceSummary", <<>>)

\* the channels of one map of the registry
ChannelsOf(map) == {channel_from_name(n, map[n]) : n \in DOMAIN map}

\* the orders in which a HashMap may be iterated
Orders(S) == {q \in [1..Cardinality(S) -> S] : \A i, j \in 1..Cardinality(S) : q[i] = q[j] => i = j}

\* resubscribe, lines 377-396: the public channels, then the user channels
channels_to_resubscribe(subs) ==
    {p \o u : p \in Orders(ChannelsOf(subs.public)), u \in Orders(ChannelsOf(subs.user))}

\* the top of the while loop: sleep before the next attempt, or give up
LoopTop(count, d) ==
    IF LoopContinues(count, max_retries)
    THEN /\ rc_pc' = "sleep"
         /\ rc_result' = rc_result
    ELSE /\ rc_pc' = "done"
         /\ rc_result' = "RetriesExhausted"

\* reconnect() is called after a connection loss: lines 309-317
ReconnectStart ==
    /\ rc_pc \in {"idle", "done"}
    /\ rc_calls < MaxReconnects
    /\ "Down" \in {public_sink, user_sink}
    /\ rc_calls' = rc_calls + 1
    /\ attempts' = 0
    /\ slept' = <<>>
    /\ rc_sent' = <<>>
    /\ rc_queue' = <<>>
    /\ rc_snapshot' = Subscriptions_new
    /\ IF ~auto_reconnect
       THEN /\ rc_pc' = "done"
            /\ rc_result' = "AutoReconnectDisabled"
            /\ UNCHANGED <<retry_count, delay>>
       ELSE /\ retry_count' = 0
            /\ delay' = InitialDelaySecs
            /\ IF LoopContinues(0, max_retries)
               THEN rc_pc' = "sleep" /\ rc_result' = "none"
               ELSE rc_pc' = "done" /\ rc_result' = "RetriesExhausted"
    /\ UNCHANGED <<cfgVars, limiterVars, callerVars, sinkVars, regVars, last, before, racing, streamVars>>

\* tokio::time::sleep(delay).await has elapsed: line 318
Sleep ==
    /\ rc_pc = "sleep"
    /\ slept' = Append(slept, delay)
    /\ rc_pc' = "attempt"
    /\ UNCHANGED <<cfgVars, limiterVars, callerVars, sinkVars, regVars, last, before, rc_result, retry_count, delay,
                   rc_queue, rc_calls, racing, attempts, rc_snapshot, rc_sent, streamVars>>

\* attempt_reconnect, lines 342-371, and the match on its result, lines 320-331
AttemptReconnect(pubOk, userOk) ==
    /\ rc_pc = "attempt"
    /\ attempts' = attempts + 1
    /\ public_sink' = IF pubOk THEN "Up" ELSE public_sink
    /\ user_sink' = IF pubOk /\ credentials /\ userOk THEN "Up" ELSE user_sink
    /\ IF pubOk /\ (credentials => userOk)
       THEN /\ rc_pc' = "resubscribe"
            /\ UNCHANGED <<rc_result, retry_count, delay>>
       ELSE /\ retry_count' = retry_count + 1
            /\ delay' = NextDelay(delay)
            /\ LoopTop(retry_count + 1, NextDelay(delay))
    /\ UNCHANGED <<cfgVars, limiterVars, callerVars, regVars, last, before, rc_queue, rc_calls, racing, slept,
                   rc_snapshot, rc_sent, streamVars>>

\* resubscribe, lines 377-396: collect the channels under the lock
ResubscribeCollect ==
    /\ rc_pc = "resubscribe"
    /\ rc_queue' \in channels_to_resubscribe(subscriptions)
    /\ rc_snapshot' = subscriptions
    /\ rc_pc' = "replay"
    /\ UNCHANGED <<cfgVars, limiterVars, callerVars, sinkVars, regVars, last, before, rc_result, retry_count, delay,
                   rc_calls, racing, attempts, slept, rc_sent, streamVars>>

\* resubscribe, lines 399-403: subscribe_one(&channel).await? for the next
\* channel, and the return of reconnect(), lines 323-324
ReplayOne(o) ==
    /\ rc_pc = "replay"
    /\ IF rc_queue = <<>>
       THEN /\ rc_pc' = "done"
            /\ rc_result' = "Ok"
            /\ UNCHANGED <<sinkVars, regVars, rc_queue, rc_sent>>
       ELSE LET r == subscribe_one(credentials, Start, Head(rc_queue), o)
            IN  /\ subscriptions' = r.subs
                /\ public_sink' = r.sinks.Public
                /\ user_sink' = r.sinks.User
                /\ accepted' = SetAddAll(accepted, SubSeq(<<Head(rc_queue)>>, 1, Len(r.frames)))
                /\ issued' = SetAddAll(issued, SubSeq(<<Head(rc_queue)>>, 1, Len(r.frames)))
                /\ rc_sent' = rc_sent \o r.frames
                /\ rc_queue' = Tail(rc_queue)
                /\ IF r.result = "Ok"
                   THEN UNCHANGED <<rc_pc, rc_result>>
                   ELSE rc_pc' = "done" /\ rc_result' = r.result
    /\ UNCHANGED <<cfgVars, limiterVars, callerVars, last, before, retry_count, delay, rc_calls, racing, attempts, slept,
                   rc_snapshot, streamVars>>

\* a caller's unsubscribe that runs while the replay is in progress (calls made
\* at other times are those of Spec and lead to the registries of InitRegistries)
UnsubscribeDuringReplay(channels, outs) ==
    /\ rc_pc = "replay"
    /\ racing < MaxRacingCalls
    /\ racing' = racing + 1
    /\ UnsubscribeCall(channels, outs)
    /\ UNCHANGED <<rc_pc, rc_result, retry_count, delay, rc_queue, rc_calls, attempts, slept,
                   rc_snapshot, rc_sent, streamVars>>

\* the outcomes that differ for one replayed channel
ReplayOutcomes ==
    {o \in Outcomes :
        (rc_queue = <<>> \/ ~(credentials /\ requires_auth(Head(rc_queue)))) => o.sign}

\* registries a connected client holds when the connection is lost
InitRegistries(creds) ==
    LET pub == {<<>>,
                [n \in {"ticker"} |-> <<"BTC-USD">>],
                [n \in {"ticker", "heartbeats"} |->
                    IF n = "ticker" THEN <<"BTC-USD", "ETH-USD">> ELSE <<>>]}
        usr == IF creds
               THEN {<<>>, [n \in {"user"} |-> <<>>],
                     [n \in {"user", "futures_balance_summary"} |-> <<>>]}
               ELSE {<<>>}
    IN  {[public |-> p, user |-> u] : p \in pub, u \in usr}

\* a client after connect() and subscribe calls, with any configuration
InitConnected(maxRetries) ==
    /\ credentials \in BOOLEAN
    /\ auto_reconnect \in BOOLEAN
    /\ max_retries \in 0..maxRetries
    /\ AfterBuild
    /\ NoLimiter
    /\ NoCallers
    /\ public_sink = "Up"
    /\ user_sink = IF credentials THEN "Up" ELSE "None"
    /\ subscriptions \in InitRegistries(credentials)
    /\ accepted = AsSets(subscriptions)
    /\ issued = AsSets(subscriptions)
    /\ last = NoCall
    /\ before = Subscriptions_new
    /\ RcIdle
    /\ NoStream

InitReconnect == InitConnected(MaxRetries)

NextReconnect ==
    \/ \E endpoint \in EndpointTypes : SocketDrop(endpoint)
    \/ ReconnectStart
    \/ Sleep
    \/ \E pubOk, userOk \in BOOLEAN : AttemptReconnect(pubOk, userOk)
    \/ ResubscribeCollect
    \/ \E o \in ReplayOutcomes : ReplayOne(o)
    \/ \E channels \in Batches : \E outs \in OutcomesFor(channels) : UnsubscribeDuringReplay(channels, outs)

SpecReconnect == InitReconnect /\ [][NextReconnect]_vars

(***************************************************************************)
(* Backoff specification: the reconnect loop alone, with max_retries large *)
(* enough for the delay to reach its cap.                                  *)
(***************************************************************************)
InitBackoff ==
    /\ InitConnected(MaxBackoffRetries)
    /\ subscriptions.public = <<>>

NextBackoff ==
    \/ \E endpoint \in EndpointTypes : SocketDrop(endpoint)
    \/ ReconnectStart
    \/ Sleep
    \/ \E pubOk, userOk \in BOOLEAN : AttemptReconnect(pubOk, userOk)
    \/ ResubscribeCollect
    \/ \E o \in ReplayOutcomes : ReplayOne(o)

SpecBackoff == InitBackoff /\ [][NextBackoff]_vars

(***************************************************************************)
(* Claims about the reconnect loop (SpecReconnect, SpecBackoff).           *)
(***************************************************************************)
\* the subscribe frames the replay wrote to an endpoint: channel and ids
ReplayedTo(endpoint) ==
    {[channel |-> rc_sent[i].msg.channel, product_ids |-> rc_sent[i].msg.product_ids] :
        i \in {j \in 1..Len(rc_sent) : rc_sent[j].endpoint = endpoint}}

\* the entries the registry held for an endpoint when the replay collected them
SnapshotOf(endpoint) ==
    {[channel |-> n, product_ids |-> rc_snapshot[MapField(endpoint)][n]] :
        n \in DOMAIN rc_snapshot[MapField(endpoint)]}

\* C7: when reconnect() has returned Ok after a connection loss, the frames the
\* replay wrote to each endpoint are subscribe frames, one per entry the
\* registry held for that endpoint when the replay collected them, each with
\* the entry's product ids: none missing, none extra, in any order.
C7_ReplayIsSnapshot ==
    (rc_pc = "done" /\ rc_result = "Ok") =>
        \A endpoint \in EndpointTypes :
            /\ ReplayedTo(endpoint) = SnapshotOf(endpoint)
            /\ Cardinality({j \in 1..Len(rc_sent) : rc_sent[j].endpoint = endpoint})
                   = Cardinality(SnapshotOf(endpoint))
            /\ \A j \in 1..Len(rc_sent) : rc_sent[j].msg.type = "subscribe"

\* C7 witness: a reconnect succeeded with Ticker{BTC-USD, ETH-USD} and
\* Heartbeats registered on the public endpoint and User on the user endpoint,
\* while a caller's unsubscribe changed the registry after the collection.
C7_Witness ==
    /\ rc_pc = "done"
    /\ rc_result = "Ok"
    /\ DOMAIN rc_snapshot.public = {"ticker", "heartbeats"}
    /\ rc_snapshot.public["ticker"] = <<"BTC-USD", "ETH-USD">>
    /\ DOMAIN rc_snapshot.user = {"user"}
    /\ Len(rc_sent) = 3
    /\ last.op = "unsubscribe"
    /\ last.result = "Ok"

\* 2^n
RECURSIVE Pow2(_)
Pow2(n) == IF n = 0 THEN 1 ELSE 2 * Pow2(n - 1)

\* C8: the delay waited before the k-th consecutive attempt is min(2^(k-1), 60)
\* seconds: 1, 2, 4, 8, ... and never more than 60.
C8_BackoffDelays ==
    \A k \in 1..Len(slept) : slept[k] = Min(Pow2(k - 1), 60)

\* C8 witness: eight attempts were made; the first four waited 1, 2, 4 and 8
\* seconds and the seventh and eighth waited the cap.
C8_Witness ==
    /\ Len(slept) = 8
    /\ SubSeq(slept, 1, 4) = <<1, 2, 4, 8>>
    /\ slept[7] = 60
    /\ slept[8] = 60

\* C9: with auto-reconnect enabled and max_retries = N, reconnect() makes at
\* most N attempts; after N failed attempts it has stopped with the error and
\* no sleep or attempt is enabled any more; with auto-reconnect disabled it
\* returns the error without an attempt.
C9_AttemptsBounded ==
    /\ attempts <= max_retries
    /\ rc_pc \in {"sleep", "attempt"} => (auto_reconnect /\ retry_count < max_retries)
    /\ rc_result = "RetriesExhausted" =>
           (rc_pc = "done" /\ auto_reconnect /\ attempts = max_retries /\ retry_count = max_retries)
    /\ (~auto_reconnect /\ rc_calls > 0) =>
           (rc_pc = "done" /\ rc_result = "AutoReconnectDisabled" /\ attempts = 0 /\ slept = <<>>)
    /\ rc_pc = "done" =>
           (~ENABLED Sleep /\ ~ENABLED (\E pubOk, userOk \in BOOLEAN : AttemptReconnect(pubOk, userOk)))

\* C9 witness: three attempts out of max_retries = 3 failed and reconnect()
\* returned the error.
C9_Witness ==
    /\ auto_reconnect
    /\ max_retries = 3
    /\ attempts = 3
    /\ rc_pc = "done"
    /\ rc_result = "RetriesExhausted"

(***************************************************************************)
(* The message stream: MessageStream::poll_next over the read halves of    *)
(* the two sockets.                                                        *)
(***************************************************************************)
\* what the read half of a socket returns: a text frame that parses, a text
\* frame that does not, the ignored frames, a close frame, a transport error,
\* and the end of the stream
FrameKinds == {"Text", "BadText", "Ping", "Binary", "Close"}
EventKinds == FrameKinds \cup {"Error", "End"}

Streams == [Public |-> public_stream, User |-> user_stream]

\* a process_ws_message that ignores a text frame it cannot parse
process_ws_message_DropsMalformed(frame) ==
    CASE frame.kind = "Text"    -> [some |-> TRUE, kind |-> "Message"]
      [] frame.kind = "Close"   -> [some |-> TRUE, kind |-> "Closed"]
      [] OTHER                  -> [some |-> FALSE, kind |-> "none"]

\* process_ws_message: the item of a frame, if it has one
process_ws_message(frame) ==
    CASE frame.kind = "Text"    -> [some |-> TRUE, kind |-> "Message"]
      [] frame.kind = "BadText" -> [some |-> TRUE, kind |-> "ParseError"]
      [] frame.kind = "Close"   -> [some |-> TRUE, kind |-> "Closed"]
      [] OTHER                  -> [some |-> FALSE, kind |-> "none"]

NoItem == [source |-> "none", kind |-> "none", id |-> 0]

\* a poll of a stream that hands out the newest waiting frame first
poll_source_NewestFirst(endpoint, stream, queue) ==
    IF stream = "None" \/ queue = <<>>
    THEN [stream |-> stream, queue |-> queue, ready |-> FALSE, item |-> NoItem]
    ELSE LET ev == queue[Len(queue)]
             rest == SubSeq(queue, 1, Len(queue) - 1)
         IN  IF ev.kind = "End"
             THEN [stream |-> "None", queue |-> rest, ready |-> FALSE, item |-> NoItem]
             ELSE IF ev.kind = "Error"
             THEN [stream |-> stream, queue |-> rest, ready |-> TRUE,
                   item |-> [source |-> endpoint, kind |-> "WebSocketError", id |-> ev.id]]
             ELSE LET msg == process_ws_message(ev)
                  IN  [stream |-> stream, queue |-> rest, ready |-> msg.some,
                       item |-> IF msg.some
                                THEN [source |-> endpoint, kind |-> msg.kind, id |-> ev.id]
                                ELSE NoItem]

\* one arm of poll_next: poll the stream of one endpoint
poll_source(endpoint, stream, queue) ==
    IF stream = "None" \/ queue = <<>>
    THEN [stream |-> stream, queue |-> queue, ready |-> FALSE, item |-> NoItem]
    ELSE LET ev == Head(queue)
         IN  IF ev.kind = "End"
             THEN [stream |-> "None", queue |-> Tail(queue), ready |-> FALSE, item |-> NoItem]
             ELSE IF ev.kind = "Error"
             THEN [stream |-> stream, queue |-> Tail(queue), ready |-> TRUE,
                   item |-> [source |-> endpoint, kind |-> "WebSocketError", id |-> ev.id]]
             ELSE LET msg == process_ws_message(ev)
                  IN  [stream |-> stream, queue |-> Tail(queue), ready |-> msg.some,
                       item |-> IF msg.some
                                THEN [source |-> endpoint, kind |-> msg.kind, id |-> ev.id]
                                ELSE NoItem]

\* a poll_next that reports the end as soon as the public stream has ended
poll_next_EndsOnFirstSource(pubStream, userStream, inb) ==
    LET p == poll_source("Public", pubStream, inb.Public)
    IN  IF p.ready
        THEN [public_stream |-> p.stream, user_stream |-> userStream,
              inbound |-> [inb EXCEPT !.Public = p.queue], ret |-> "Item", item |-> p.item]
        ELSE LET u == poll_source("User", userStream, inb.User)
                 both == [Public |-> p.queue, User |-> u.queue]
             IN  IF u.ready
                 THEN [public_stream |-> p.stream, user_stream |-> u.stream,
                       inbound |-> both, ret |-> "Item", item |-> u.item]
                 ELSE [public_stream |-> p.stream, user_stream |-> u.stream,
                       inbound |-> both,
                       ret |-> IF p.stream = "None" THEN "End" ELSE "Pending",
                       item |-> NoItem]

\* MessageStream::poll_next: the public stream first, then the user stream
poll_next(pubStream, userStream, inb) ==
    LET p == poll_source("Public", pubStream, inb.Public)
    IN  IF p.ready
        THEN [public_stream |-> p.stream, user_stream |-> userStream,
              inbound |-> [inb EXCEPT !.Public = p.queue], ret |-> "Item", item |-> p.item]
        ELSE LET u == poll_source("User", userStream, inb.User)
                 both == [Public |-> p.queue, User |-> u.queue]
             IN  IF u.ready
                 THEN [public_stream |-> p.stream, user_stream |-> u.stream,
                       inbound |-> both, ret |-> "Item", item |-> u.item]
                 ELSE [public_stream |-> p.stream, user_stream |-> u.stream,
                       inbound |-> both,
                       ret |-> IF p.stream = "None" /\ u.stream = "None" THEN "End" ELSE "Pending",
                       item |-> NoItem]

\* the socket of an endpoint delivers a frame, fails or ends; after a close
\* frame or a failure the socket is broken and its stream can only end
Arrive(endpoint, kind) ==
    /\ arrived < MaxFrames
    /\ Streams[endpoint] = "Some"
    /\ \A i \in 1..Len(inbound[endpoint]) : inbound[endpoint][i].kind # "End"
    /\ Sinks[endpoint] = "Down" => kind = "End"
    /\ arrived' = arrived + 1
    /\ wire' = Append(wire, [source |-> endpoint, kind |-> kind])
    /\ inbound' = [inbound EXCEPT ![endpoint] = Append(@, [kind |-> kind, id |-> arrived + 1])]
    /\ IF kind \in {"Close", "Error", "End"}
       THEN /\ public_sink' = IF endpoint = "Public" THEN "Down" ELSE public_sink
            /\ user_sink' = IF endpoint = "User" THEN "Down" ELSE user_sink
       ELSE UNCHANGED sinkVars
    /\ UNCHANGED <<cfgVars, limiterVars, callerVars, regVars, last, before, rcVars,
                   public_stream, user_stream, yielded, polled>>

\* the caller polls the stream once
PollNext ==
    LET r == poll_next(public_stream, user_stream, inbound)
    IN  /\ public_stream' = r.public_stream
        /\ user_stream' = r.user_stream
        /\ inbound' = r.inbound
        /\ polled' = r.ret
        /\ yielded' = IF r.ret = "Item" THEN Append(yielded, r.item) ELSE yielded
        /\ UNCHANGED <<cfgVars, limiterVars, callerVars, sinkVars, regVars, last, before, rcVars, arrived, wire>>

\* a client whose connect() has returned its stream
InitStream ==
    /\ credentials \in BOOLEAN
    /\ auto_reconnect \in BOOLEAN
    /\ max_retries = IF auto_reconnect THEN MaxRetries ELSE 0
    /\ AfterBuild
    /\ NoLimiter
    /\ NoCallers
    /\ public_sink = "Up"
    /\ user_sink = IF credentials THEN "Up" ELSE "None"
    /\ subscriptions = Subscriptions_new
    /\ accepted = AsSets(subscriptions)
    /\ issued = AsSets(subscriptions)
    /\ last = NoCall
    /\ before = Subscriptions_new
    /\ RcIdle
    /\ public_stream = "Some"
    /\ user_stream = IF credentials THEN "Some" ELSE "None"
    /\ inbound = [Public |-> <<>>, User |-> <<>>]
    /\ arrived = 0
    /\ wire = <<>>
    /\ yielded = <<>>
    /\ polled = "none"

NextStream ==
    \/ \E endpoint \in EndpointTypes : \E kind \in EventKinds : Arrive(endpoint, kind)
    \/ PollNext

SpecStream == InitStream /\ [][NextStream]_vars

\* the items that report a failure of the transport: an I/O error of the
\* socket and a close of the socket by the peer
TransportFailures == {"WebSocketError", "Closed"}

\* C10: with auto-reconnect enabled, the stream yields no error item for a
\* transport failure (an I/O error or a closed socket) unless the reconnect
\* loop has run and exhausted its attempts; the failure is otherwise absorbed
\* by the reconnect loop.
C10_TransportFailureRetried ==
    (auto_reconnect /\ max_retries > 0) =>
        \A i \in 1..Len(yielded) :
            yielded[i].kind \in TransportFailures =>
                (rc_pc = "done" /\ rc_result = "RetriesExhausted")

\* the arrivals still waiting in the read half of their socket, and those the
\* stream has taken from it
PendingIds ==
    UNION {{inbound[e][i].id : i \in 1..Len(inbound[e])} : e \in EndpointTypes}

Consumed(k) == k \in 1..Len(wire) /\ k \notin PendingIds

\* the positions of yielded that hold the item of arrival k
YieldedAt(k) == {i \in 1..Len(yielded) : yielded[i].id = k}

\* the stream of an endpoint has ended: its end-of-stream event was consumed
Ended(endpoint) ==
    \E k \in 1..Len(wire) : wire[k] = [source |-> endpoint, kind |-> "End"] /\ Consumed(k)

\* C12: a text frame that cannot be decoded is yielded as exactly one error
\* item (of its endpoint) once the stream has taken it, it does not end the
\* stream of its endpoint or of the other one, and every text frame that
\* arrived after it on either endpoint and was taken by the stream was yielded
\* as one message; the stream does not report its end while frames wait.
C12_MalformedFrameIsOneItem ==
    \A k \in 1..Len(wire) :
        wire[k].kind = "BadText" =>
            /\ Cardinality(YieldedAt(k)) = IF Consumed(k) THEN 1 ELSE 0
            /\ \A i \in YieldedAt(k) :
                   yielded[i] = [source |-> wire[k].source, kind |-> "ParseError", id |-> k]
            /\ \A e \in EndpointTypes :
                   (Streams[e] = "None" /\ (e = "User" => credentials)) => Ended(e)
            /\ \A j \in (k + 1)..Len(wire) :
                   (wire[j].kind = "Text" /\ Consumed(j)) =>
                       /\ Cardinality(YieldedAt(j)) = 1
                       /\ \A i \in YieldedAt(j) :
                              yielded[i] = [source |-> wire[j].source, kind |-> "Message", id |-> j]
            /\ polled = "End" => PendingIds = {}

\* C12 witness: a malformed frame on the public endpoint was yielded as a
\* parse error, and after it a message of the public endpoint and a message
\* of the user endpoint.
C12_Witness ==
    /\ wire = <<[source |-> "Public", kind |-> "BadText"],
                [source |-> "Public", kind |-> "Text"],
                [source |-> "User", kind |-> "Text"]>>
    /\ Len(yielded) = 3
    /\ yielded[1] = [source |-> "Public", kind |-> "ParseError", id |-> 1]
    /\ yielded[2].kind = "Message"
    /\ yielded[3] = [source |-> "User", kind |-> "Message", id |-> 3]

\* C13: the stream reports its end only when both sources are gone (ended, or
\* the user source never opened) and never while one is open; with both gone a
\* poll reports the end; a source that has ended is dropped: nothing waits in
\* it and no item of it was yielded after its end.
C13_EndOnlyWhenBothGone ==
    /\ polled = "End" => (public_stream = "None" /\ user_stream = "None")
    /\ polled = "Pending" => (public_stream = "Some" \/ user_stream = "Some")
    /\ \A e \in EndpointTypes :
           Streams[e] = "None" =>
               /\ Ended(e) \/ (e = "User" /\ ~credentials)
               /\ inbound[e] = <<>>
               /\ \A k \in 1..Len(wire) :
                      wire[k] = [source |-> e, kind |-> "End"] =>
                          \A i \in 1..Len(yielded) :
                              yielded[i].source = e => yielded[i].id < k

\* C13 witness: the public source ended first, a message of the user source
\* was yielded after that, and the end was reported once the user source had
\* ended too.
C13_Witness ==
    /\ wire = <<[source |-> "Public", kind |-> "End"],
                [source |-> "User", kind |-> "Text"],
                [source |-> "User", kind |-> "End"]>>
    /\ yielded = <<[source |-> "User", kind |-> "Message", id |-> 2]>>
    /\ public_stream = "None"
    /\ user_stream = "None"
    /\ polled = "End"

\* C14: the items of one endpoint are yielded in the order their frames
\* arrived on that endpoint's socket, each frame gives at most one item, and
\* an item names the endpoint its frame arrived on.
C14_PerEndpointOrder ==
    /\ \A i, j \in 1..Len(yielded) :
           (i < j /\ yielded[i].source = yielded[j].source) => yielded[i].id < yielded[j].id
    /\ \A i, j \in 1..Len(yielded) : yielded[i].id = yielded[j].id => i = j
    /\ \A i \in 1..Len(yielded) :
           /\ yielded[i].id \in 1..Len(wire)
           /\ yielded[i].source = wire[yielded[i].id].source

\* C14 witness: a frame of the user endpoint arrived before two frames of the
\* public endpoint and was yielded after them; the public frames kept their
\* order.
C14_Witness ==
    /\ wire = <<[source |-> "User", kind |-> "Text"],
                [source |-> "Public", kind |-> "Text"],
                [source |-> "Public", kind |-> "BadText"]>>
    /\ Len(yielded) = 3
    /\ yielded[1].id = 2
    /\ yielded[2].id = 3
    /\ yielded[3].id = 1

\* a step in which attempt_reconnect returned Ok: it has opened a new socket
\* for the public endpoint and, with credentials, for the user endpoint, and
\* has put the new sinks in place of the old ones
AttemptSucceededStep ==
    /\ rc_pc = "attempt"
    /\ attempts' = attempts + 1
    /\ rc_pc' = "resubscribe"

\* C15: the reconnection after a loss on one endpoint leaves the other
\* endpoint untouched: a reconnect attempt does not replace the sink of an
\* endpoint whose socket is up.
C15_OtherEndpointUntouched ==
    [][AttemptSucceededStep
       => (/\ public_sink # "Up"
           /\ credentials => user_sink # "Up")]_vars

(***************************************************************************)
(* Teardown.  The crate has no close or shutdown operation and spawns no   *)
(* task: a caller tears a session down by dropping what it holds.  A       *)
(* pending reconnect() borrows the client, so the caller drops that future *)
(* (which ends its sleep) and then the WebSocketClient.  The MessageStream *)
(* returned by connect() holds its own Arc clones of both sinks            *)
(* (clone_internal, client.rs 424-433) and both read halves, so the        *)
(* sockets stay open for as long as the stream lives.                      *)
(***************************************************************************)
\* the caller drops a pending reconnect() future and the WebSocketClient
DropClient ==
    /\ last.op # "drop"
    /\ last' = [NoCall EXCEPT !.op = "drop"]
    /\ IF rc_pc \in {"idle", "done"}
       THEN UNCHANGED <<rc_pc, rc_result>>
       ELSE /\ rc_pc' = "done"
            /\ rc_result' = IF rc_pc = "sleep" THEN "DroppedInSleep" ELSE "Dropped"
    /\ UNCHANGED <<cfgVars, limiterVars, callerVars, sinkVars, regVars, before, retry_count, delay, rc_queue, rc_calls,
                   racing, attempts, slept, rc_snapshot, rc_sent, streamVars>>

\* a connected client with auto-reconnect enabled and its stream
InitTeardown ==
    /\ InitStream
    /\ auto_reconnect

NextTeardown ==
    \/ /\ last.op # "drop"
       /\ \/ ReconnectStart
          \/ Sleep
          \/ \E pubOk, userOk \in BOOLEAN : AttemptReconnect(pubOk, userOk)
          \/ ResubscribeCollect
          \/ \E o \in ReplayOutcomes : ReplayOne(o)
    \/ DropClient
    \/ \E endpoint \in EndpointTypes : \E kind \in {"Text", "Error", "End"} : Arrive(endpoint, kind)
    \/ PollNext

SpecTeardown == InitTeardown /\ [][NextTeardown]_vars

\* C16: after the session is torn down while a backoff sleep of the reconnect
\* loop is pending, no further sleep or attempt is made and the stream
\* terminates promptly: the next poll reports the end of the stream.  (After
\* the teardown a step that is not an arrival is a poll of the stream.)
C16_TeardownEndsStream ==
    [][(last.op = "drop" /\ rc_result = "DroppedInSleep" /\ arrived' = arrived)
       => (/\ attempts' = attempts
           /\ slept' = slept
           /\ polled' = "End")]_vars

(***************************************************************************)
(* Endpoints specification: a client as built, with any configuration,     *)
(* under connect, subscribe, unsubscribe, socket loss and reconnect().     *)
(***************************************************************************)
\* the slices of the endpoints specification: one channel of each endpoint
EndpointBatches == {<<Chan("Heartbeats", <<>>)>>, <<Chan("User", <<>>)>>}

InitEndpoints ==
    /\ credentials \in BOOLEAN
    /\ auto_reconnect \in BOOLEAN
    /\ max_retries = IF auto_reconnect THEN MaxRetries ELSE 0
    /\ AfterBuild
    /\ NoLimiter
    /\ NoCallers
    /\ public_sink = "None"
    /\ user_sink = "None"
    /\ subscriptions = Subscriptions_new
    /\ accepted = Subscriptions_new
    /\ issued = Subscriptions_new
    /\ last = NoCall
    /\ before = Subscriptions_new
    /\ RcIdle
    /\ NoStream

NextEndpoints ==
    \/ \E pubOk, userOk \in BOOLEAN : Connect(pubOk, userOk)
    \/ \E channels \in EndpointBatches : \E outs \in OutcomesFor(channels) : Subscribe(channels, outs)
    \/ \E channels \in EndpointBatches : \E outs \in OutcomesFor(channels) : Unsubscribe(channels, outs)
    \/ \E endpoint \in EndpointTypes : SocketDrop(endpoint)
    \/ ReconnectStart
    \/ Sleep
    \/ \E pubOk, userOk \in BOOLEAN : AttemptReconnect(pubOk, userOk)
    \/ ResubscribeCollect
    \/ \E o \in ReplayOutcomes : ReplayOne(o)

SpecEndpoints == InitEndpoints /\ [][NextEndpoints]_vars

\* C17: a client built without credentials never has a user sink and never
\* has a user source in its stream, whatever connect, reconnect, subscribe and
\* unsubscribe calls were made; no control frame is ever written to the user
\* endpoint.
C17_NoUserEndpointWithoutCredentials ==
    ~credentials =>
        /\ user_sink = "None"
        /\ user_stream = "None"
        /\ subscriptions.user = <<>>
        /\ \A i \in 1..Len(last.frames) : last.frames[i].endpoint = "Public"
        /\ \A i \in 1..Len(rc_sent) : rc_sent[i].endpoint = "Public"

\* C17 witness: a client without credentials has connected, subscribed to
\* Heartbeats, lost the public socket and reconnected with the replay of
\* Heartbeats; its last call, a subscribe on the new socket, returned Ok.
C17_Witness ==
    /\ ~credentials
    /\ public_stream = "Some"
    /\ rc_pc = "done"
    /\ rc_result = "Ok"
    /\ Len(rc_sent) = 1
    /\ public_sink = "Up"
    /\ last.op = "subscribe"
    /\ last.channels = <<Chan("Heartbeats", <<>>)>>
    /\ last.result = "Ok"
    /\ user_sink = "None"

(***************************************************************************)
(* Frames specification: calls with slices of two channels on a connected  *)
(* client, followed by a socket loss and reconnect() with its replay.      *)
(***************************************************************************)
FrameBatches ==
    {<<Chan("Heartbeats", <<>>)>>,
     <<Chan("User", <<>>), Chan("FuturesBalanceSummary", <<>>)>>,
     <<Chan("Heartbeats", <<>>), Chan("User", <<>>)>>}

InitFrames ==
    /\ InitStream
    /\ auto_reconnect

NextFrames ==
    \/ /\ rc_pc = "idle"
       /\ \/ \E channels \in FrameBatches : \E outs \in OutcomesFor(channels) : Subscribe(channels, outs)
          \/ \E channels \in FrameBatches : \E outs \in OutcomesFor(channels) : Unsubscribe(channels, outs)
    \/ \E endpoint \in EndpointTypes : SocketDrop(endpoint)
    \/ ReconnectStart
    \/ Sleep
    \/ \E pubOk, userOk \in BOOLEAN : AttemptReconnect(pubOk, userOk)
    \/ ResubscribeCollect
    \/ \E o \in ReplayOutcomes : ReplayOne(o)

SpecFrames == InitFrames /\ [][NextFrames]_vars

\* the serialized names of the channels that require authentication
AuthChannelNames == {ChannelName(Chan(k, <<>>)) : k \in {"User", "FuturesBalanceSummary"}}

\* a frame carries exactly one of jwt and timestamp: the jwt for an
\* auth-requiring channel, the timestamp for any other
OneOfJwtAndTimestamp(frame) ==
    /\ frame.msg.type \in {"subscribe", "unsubscribe"}
    /\ (frame.msg.jwt # 0) <=> ~frame.msg.timestamp
    /\ (frame.msg.jwt # 0) <=> (frame.msg.channel \in AuthChannelNames)

\* the frames among fs that carry a token
WithJwt(fs) == {i \in 1..Len(fs) : fs[i].msg.jwt # 0}

\* C18: every control frame written by a call or by the replay carries exactly
\* one of jwt and timestamp, the jwt exactly for User and
\* FuturesBalanceSummary; within a call no two frames carry the same token, and
\* the tokens signed by the call are those of its frames, plus the one whose
\* signature or whose write failed.
C18_OneFreshCredentialPerFrame ==
    /\ \A i \in 1..Len(last.frames) : OneOfJwtAndTimestamp(last.frames[i])
    /\ \A i \in 1..Len(rc_sent) : OneOfJwtAndTimestamp(rc_sent[i])
    /\ \A i, j \in WithJwt(last.frames) :
           last.frames[i].msg.jwt = last.frames[j].msg.jwt => i = j
    /\ last.signs >= Cardinality(WithJwt(last.frames))
    /\ last.signs <= Cardinality(WithJwt(last.frames)) + 1
    /\ last.result = "Ok" => last.signs = Cardinality(WithJwt(last.frames))

\* C18 witness: one subscribe call wrote a frame for User and a frame for
\* FuturesBalanceSummary with two tokens from two signatures, and the replay
\* of a later reconnect wrote a frame with a timestamp and a frame with a
\* token.
C18_Witness ==
    /\ last.op = "subscribe"
    /\ last.result = "Ok"
    /\ Len(last.frames) = 2
    /\ last.signs = 2
    /\ last.frames[1].msg.jwt # last.frames[2].msg.jwt
    /\ \E i, j \in 1..Len(rc_sent) : rc_sent[i].msg.timestamp /\ rc_sent[j].msg.jwt # 0

(***************************************************************************)
(* Catalog specification: a connected client with credentials subscribing  *)
(* to and unsubscribing from one channel of every variant of Channel.      *)
(***************************************************************************)
\* one channel of every variant
VariantChannels ==
    {Chan(k, <<"BTC-USD">>) : k \in ScopedKinds} \cup {Chan(k, <<>>) : k \in UnscopedKinds}

InitCatalog ==
    /\ InitStream
    /\ credentials
    /\ ~auto_reconnect

\* the number of entries of a registry
EntryCount(subs) == Cardinality(DOMAIN subs.public) + Cardinality(DOMAIN subs.user)

NextCatalog ==
    \/ \E c \in VariantChannels : \E outs \in OutcomesFor(<<c>>) :
           Subscribe(<<c>>, outs) /\ EntryCount(subscriptions') <= MaxEntries
    \/ \E c \in VariantChannels : \E outs \in OutcomesFor(<<c>>) : Unsubscribe(<<c>>, outs)

SpecCatalog == InitCatalog /\ [][NextCatalog]_vars

\* C19: of the nine variants, endpoint_type is User exactly for User and
\* FuturesBalanceSummary and Public for the others; requires_auth holds exactly
\* when endpoint_type is User; and the frame of a call on a channel is written
\* to the sink of that endpoint and carries a token exactly when it is User.
C19_EndpointOfChannel ==
    /\ \A c \in VariantChannels :
           /\ endpoint_type(c) =
                  (IF c.kind \in {"User", "FuturesBalanceSummary"} THEN "User" ELSE "Public")
           /\ requires_auth(c) <=> (endpoint_type(c) = "User")
    /\ {c.kind : c \in VariantChannels} = ChannelKinds
    /\ Cardinality(ChannelKinds) = 9
    /\ \A i \in 1..Len(last.frames) :
           /\ last.frames[i].endpoint =
                  (IF last.channels[i].kind \in {"User", "FuturesBalanceSummary"}
                   THEN "User" ELSE "Public")
           /\ (last.frames[i].msg.jwt # 0) <=> (last.frames[i].endpoint = "User")

\* C19 witness: with Candles and User registered, a subscribe to
\* FuturesBalanceSummary wrote its frame to the user endpoint.
C19_Witness ==
    /\ last.op = "subscribe"
    /\ last.channels = <<Chan("FuturesBalanceSummary", <<>>)>>
    /\ last.result = "Ok"
    /\ last.frames[1].endpoint = "User"
    /\ "candles" \in DOMAIN subscriptions.public
    /\ DOMAIN subscriptions.user = {"user", "futures_balance_summary"}

(***************************************************************************)
(* The builder: WebSocketClientBuilder                                     *)
(***************************************************************************)
\* the value auto_reconnect(true) gives a max_retries of 0
DefaultMaxRetries == 10

\* #[derive(Default)]: no credentials, auto_reconnect false, max_retries 0
WebSocketClientBuilder_new ==
    [credentials |-> FALSE, auto_reconnect |-> FALSE, max_retries |-> 0]

Builder_credentials(b) ==
    [b EXCEPT !.credentials = TRUE]

Builder_auto_reconnect_OverwritesRetries(b, enable) ==
    [b EXCEPT !.auto_reconnect = enable,
              !.max_retries = IF enable THEN DefaultMaxRetries ELSE b.max_retries]

Builder_auto_reconnect(b, enable) ==
    [b EXCEPT !.auto_reconnect = enable,
              !.max_retries = IF enable /\ b.max_retries = 0
                              THEN DefaultMaxRetries ELSE b.max_retries]

Builder_max_retries(b, n) ==
    [b EXCEPT !.max_retries = n]

\* the values handed to max_retries(): u32, here the small ones and the default
RetryValues == 0..MaxRetries \cup {DefaultMaxRetries}

\* the builder as the three configuration variables hold it
TheBuilder ==
    [credentials |-> credentials, auto_reconnect |-> auto_reconnect,
     max_retries |-> max_retries]

\* one builder method: the builder is consumed and the changed one returned
BuilderCall(op, arg, b) ==
    /\ ~built
    /\ Len(builder_calls) < MaxBuilderCalls
    /\ credentials' = b.credentials
    /\ auto_reconnect' = b.auto_reconnect
    /\ max_retries' = b.max_retries
    /\ builder_calls' = Append(builder_calls, [op |-> op, arg |-> arg])
    /\ UNCHANGED <<built, sinkVars, regVars, last, before, rcVars, streamVars, limiterVars,
                   callerVars>>

SetCredentials ==
    BuilderCall("credentials", 0, Builder_credentials(TheBuilder))

SetAutoReconnect(enable) ==
    BuilderCall("auto_reconnect", IF enable THEN 1 ELSE 0,
                Builder_auto_reconnect(TheBuilder, enable))

SetMaxRetries(n) ==
    BuilderCall("max_retries", n, Builder_max_retries(TheBuilder, n))

\* build(): the three fields move into the client; sinks None, registry empty
Build ==
    /\ ~built
    /\ built' = TRUE
    /\ builder_calls' = Append(builder_calls, [op |-> "build", arg |-> 0])
    /\ public_sink' = "None"
    /\ user_sink' = "None"
    /\ subscriptions' = Subscriptions_new
    /\ UNCHANGED <<credentials, auto_reconnect, max_retries, accepted, issued, last, before,
                   rcVars, streamVars, limiterVars, callerVars>>

\* WebSocketClientBuilder::new()
InitBuilder ==
    /\ credentials = WebSocketClientBuilder_new.credentials
    /\ auto_reconnect = WebSocketClientBuilder_new.auto_reconnect
    /\ max_retries = WebSocketClientBuilder_new.max_retries
    /\ built = FALSE
    /\ builder_calls = <<>>
    /\ NoLimiter
    /\ NoCallers
    /\ public_sink = "None"
    /\ user_sink = "None"
    /\ subscriptions = Subscriptions_new
    /\ accepted = AsSets(subscriptions)
    /\ issued = AsSets(subscriptions)
    /\ last = NoCall
    /\ before = Subscriptions_new
    /\ RcIdle
    /\ NoStream

NextBuilder ==
    \/ SetCredentials
    \/ \E enable \in BOOLEAN : SetAutoReconnect(enable)
    \/ \E n \in RetryValues : SetMaxRetries(n)
    \/ Build

SpecBuilder == InitBuilder /\ [][NextBuilder]_vars

\* the argument of the last max_retries() call of a history, -1 if there is none
RECURSIVE ExplicitRetries(_)
ExplicitRetries(calls) ==
    IF calls = <<>> THEN -1
    ELSE IF calls[Len(calls)].op = "max_retries" THEN calls[Len(calls)].arg
    ELSE ExplicitRetries(SubSeq(calls, 1, Len(calls) - 1))

\* the step is auto_reconnect(true)
EnableStep ==
    /\ Len(builder_calls') = Len(builder_calls) + 1
    /\ builder_calls'[Len(builder_calls')] = [op |-> "auto_reconnect", arg |-> 1]

\* C20: a client built from a fresh builder has auto_reconnect false and
\* max_retries 0; auto_reconnect(true) on a builder whose max_retries is 0
\* sets max_retries to 10; and where the last max_retries() call, before or
\* after the enabling, gave a non-zero value, the built client has that value.
C20_BuilderDefaults ==
    [][/\ (built' /\ Len(builder_calls') = 1) => (~auto_reconnect' /\ max_retries' = 0)
       /\ (EnableStep /\ max_retries = 0) =>
              (auto_reconnect' /\ max_retries' = DefaultMaxRetries)
       /\ (built' /\ ExplicitRetries(builder_calls') > 0) =>
              max_retries' = ExplicitRetries(builder_calls')]_vars

\* C20 witness: max_retries(MaxRetries), then auto_reconnect(true), then build():
\* the built client reconnects and keeps the explicit value.
C20_Witness ==
    /\ built
    /\ builder_calls = <<[op |-> "max_retries", arg |-> MaxRetries],
                         [op |-> "auto_reconnect", arg |-> 1],
                         [op |-> "build", arg |-> 0]>>
    /\ auto_reconnect
    /\ max_retries = MaxRetries

\* reconnect() has returned Ok: the replay has sent every collected channel
ReplayDone ==
    /\ rc_pc = "done"
    /\ rc_result = "Ok"

\* C26: a reconnect whose replay ran with no caller's call in between leaves
\* the registry as it was when the replay collected it: the same keys and the
\* same product ids, none repeated.
C26_ReplayKeepsRegistry ==
    (ReplayDone /\ racing = 0) =>
        /\ subscriptions = rc_snapshot
        /\ \A f \in {"public", "user"} :
               \A n \in DOMAIN subscriptions[f] : NoDuplicates(subscriptions[f][n])

\* the registry holds nothing of a channel: its key is absent, or, for a
\* channel with product ids, none of its ids is in the entry
Absent(subs, channel) ==
    IF product_ids(channel) = <<>>
    THEN ~HasEntry(subs, channel)
    ELSE IdsOf(subs, channel) \cap Range(product_ids(channel)) = {}

\* C27: when unsubscribe(c) has succeeded during a replay (after the replay
\* collected the registry) and the replay has finished, the registry does
\* not contain c.
C27_ReplayNeverReAdds ==
    (ReplayDone /\ racing > 0 /\ last.op = "unsubscribe" /\ last.result = "Ok") =>
        \A i \in 1..Len(last.channels) : Absent(subscriptions, last.channels[i])

\* C29: reconnect() returns an error only when auto-reconnect is disabled or
\* when max_retries connection attempts were made and all of them failed; a
\* failure of the replay does not end the loop.
C29_GivesUpOnlyWhenExhausted ==
    (rc_pc = "done" /\ rc_result # "Ok") =>
        \/ ~auto_reconnect /\ rc_result = "AutoReconnectDisabled"
        \/ /\ rc_result = "RetriesExhausted"
           /\ attempts = max_retries
           /\ retry_count = max_retries

\* the step is a connect() on a client that has no sink yet, and it fails
FirstConnectFails ==
    /\ public_sink = "None"
    /\ user_sink = "None"
    /\ last'.op = "connect"
    /\ last'.result = "ConnectFailed"

\* C25: a connect() that returns an error leaves the client unconnected: no
\* sink is installed for either endpoint.
C25_FailedConnectInstallsNothing ==
    [][FirstConnectFails => (public_sink' = "None" /\ user_sink' = "None")]_vars

\* the step is one poll of the stream (in SpecStream only Arrive changes arrived)
PollStep == arrived' = arrived

\* the source of an endpoint reported Pending in the poll of this step: it
\* was polled with nothing waiting in its read half
ReportedPending(e) ==
    /\ Streams[e] = "Some"
    /\ inbound[e] = <<>>

\* C23: poll_next returns Pending only if every source that is still open
\* after the poll has itself reported Pending in that poll, so that a wake-up
\* is registered for every open source and a later text frame is yielded.
C23_PendingOnlyWhenAllPending ==
    [][(PollStep /\ polled' = "Pending") =>
           \A e \in EndpointTypes : Streams'[e] = "Some" => ReportedPending(e)]_vars

(***************************************************************************)
(* Slices: subscribe and unsubscribe with slices of up to three channels   *)
(* on a client in any connection state.                                    *)
(***************************************************************************)
Slices ==
    {<<Chan("Ticker", <<"BTC-USD">>), Chan("User", <<>>), Chan("Heartbeats", <<>>)>>,
     <<Chan("Heartbeats", <<>>), Chan("Ticker", <<"BTC-USD">>)>>,
     <<Chan("User", <<>>), Chan("FuturesBalanceSummary", <<>>)>>}

\* a client never connected, connected, or connected and with a lost socket;
\* connect() installs the public sink before the user sink
InitSlices ==
    /\ credentials \in BOOLEAN
    /\ auto_reconnect = FALSE
    /\ max_retries = 0
    /\ AfterBuild
    /\ NoLimiter
    /\ NoCallers
    /\ public_sink \in {"None", "Up", "Down"}
    /\ user_sink \in IF credentials /\ public_sink # "None" THEN {"None", "Up", "Down"}
                     ELSE {"None"}
    /\ subscriptions = Subscriptions_new
    /\ accepted = AsSets(subscriptions)
    /\ issued = AsSets(subscriptions)
    /\ last = NoCall
    /\ before = Subscriptions_new
    /\ RcIdle
    /\ NoStream

\* the outcomes of the writes and signatures of a slice: any write may fail
SliceOutcomes(channels) ==
    {outs \in [1..Len(channels) -> Outcomes] :
        \A i \in 1..Len(channels) :
            (~(credentials /\ requires_auth(channels[i]))) => outs[i].sign}

NextSlices ==
    \/ \E channels \in Slices : \E outs \in SliceOutcomes(channels) : Subscribe(channels, outs)
    \/ \E channels \in Slices : \E outs \in SliceOutcomes(channels) : Unsubscribe(channels, outs)

SpecSlices == InitSlices /\ [][NextSlices]_vars

\* the registry after add (for subscribe) or remove (for unsubscribe) of each
\* channel of a sequence, in order
RECURSIVE TrackAll(_, _, _)
TrackAll(op, subs, channels) ==
    IF channels = <<>> THEN subs
    ELSE TrackAll(op,
                  IF op = "subscribe" THEN add(subs, Head(channels))
                  ELSE remove(subs, Head(channels)),
                  Tail(channels))

\* a frame is the control frame of an operation on a channel
FrameOf(frame, op, channel) ==
    /\ frame.endpoint = endpoint_type(channel)
    /\ frame.msg.type = op
    /\ frame.msg.channel = ChannelName(channel)
    /\ frame.msg.product_ids = product_ids(channel)

\* C30: a subscribe or unsubscribe of a slice that fails at its k-th channel
\* has written the frames of the first k-1 channels, in slice order, and
\* nothing after them, and has updated the registry for exactly these k-1
\* channels; it returns Ok exactly when every channel was handled.
C30_SliceStopsAtFirstFailure ==
    [][LET n == Len(last'.frames)
           channels == last'.channels
       IN  /\ last'.op \in {"subscribe", "unsubscribe"}
           /\ n <= Len(channels)
           /\ (last'.result = "Ok") <=> (n = Len(channels))
           /\ \A i \in 1..n : FrameOf(last'.frames[i], last'.op, channels[i])
           /\ subscriptions' = TrackAll(last'.op, subscriptions, SubSeq(channels, 1, n))]_vars

\* C30 witness: a subscribe of Ticker, User, Heartbeats failed at User, its
\* second channel: one frame was written, Ticker is registered, User and
\* Heartbeats are not.
C30_Witness ==
    /\ credentials
    /\ last.op = "subscribe"
    /\ Len(last.channels) = 3
    /\ last.result \in {"SendFailed", "JwtError", "NotConnected"}
    /\ Len(last.frames) = 1
    /\ public_sink = "Up"
    /\ DOMAIN subscriptions.public = {"ticker"}
    /\ DOMAIN subscriptions.user = {}

(***************************************************************************)
(* Steady traffic: frames keep arriving for ever while the caller keeps    *)
(* polling. The histories are not extended, so that the behaviours are     *)
(* endless over finitely many states: yielded holds the last item only.    *)
(***************************************************************************)
\* the frames of steady traffic: a close frame would end the traffic of its socket
SteadyKinds == FrameKinds \ {"Close"}

\* a frame arrives on an endpoint whose previous frame the stream has taken
ArriveSteady(endpoint, kind) ==
    /\ Streams[endpoint] = "Some"
    /\ inbound[endpoint] = <<>>
    /\ inbound' = [inbound EXCEPT ![endpoint] = <<[kind |-> kind, id |-> 0]>>]
    /\ UNCHANGED <<cfgVars, limiterVars, callerVars, sinkVars, regVars, last, before, rcVars,
                   public_stream, user_stream, arrived, wire, yielded, polled>>

\* the caller polls the stream once
PollSteady ==
    LET r == poll_next(public_stream, user_stream, inbound)
    IN  /\ public_stream' = r.public_stream
        /\ user_stream' = r.user_stream
        /\ inbound' = r.inbound
        /\ polled' = r.ret
        /\ yielded' = IF r.ret = "Item" THEN <<r.item>> ELSE yielded
        /\ UNCHANGED <<cfgVars, limiterVars, callerVars, sinkVars, regVars, last, before, rcVars,
                       arrived, wire>>

NextSteady ==
    \/ \E endpoint \in EndpointTypes : \E kind \in SteadyKinds : ArriveSteady(endpoint, kind)
    \/ PollSteady

\* the caller keeps polling: a poll that would change the state is taken
SpecSteady == InitStream /\ [][NextSteady]_vars /\ WF_vars(PollSteady)

\* a text frame is ready on the user source
UserFrameReady ==
    /\ inbound.User # <<>>
    /\ inbound.User[1].kind = "Text"

\* the stream has taken the frame of the user source
UserFrameTaken == inbound.User = <<>>

\* C24: a text frame that is ready on the user source is eventually taken and
\* yielded to a caller that keeps polling, whatever arrives on the public
\* source.
C24_UserSourceNotStarved == UserFrameReady ~> UserFrameTaken

(***************************************************************************)
(* The rate limiter: TokenBucket and RateLimiter                           *)
(***************************************************************************)
CeilDiv(a, b) == (a + b - 1) \div b

\* TokenBucket::new at instant t: the bucket starts full
TokenBucket_new(max_tokens, refill_rate, t) ==
    [max_tokens |-> max_tokens, refill_rate |-> refill_rate,
     tokens |-> max_tokens, last_update |-> t]

\* a refill that does not cap the count at max_tokens
refill_NoCap(b, t) ==
    [b EXCEPT !.tokens = b.tokens + (t - b.last_update) * b.refill_rate,
              !.last_update = t]

\* TokenBucket::refill at instant t
refill(b, t) ==
    [b EXCEPT !.tokens = Min(b.tokens + (t - b.last_update) * b.refill_rate, b.max_tokens),
              !.last_update = t]

\* TokenBucket::try_consume at instant t: the bucket after the call and the answer
try_consume(b, t) ==
    LET r == refill(b, t)
    IN  IF r.tokens >= TokenUnit
        THEN [bucket |-> [r EXCEPT !.tokens = @ - TokenUnit], ok |-> TRUE]
        ELSE [bucket |-> r, ok |-> FALSE]

\* TokenBucket::time_until_available, in ticks (a sleep ends at or after its deadline)
time_until_available(b) ==
    IF b.tokens >= TokenUnit THEN 0 ELSE CeilDiv(TokenUnit - b.tokens, b.refill_rate)

\* the entry a try_consume call leaves in the history
LogEntry(t, op, r) ==
    [task |-> t, op |-> op, at |-> now, ok |-> r.ok,
     was |-> bucket.tokens, tokens |-> r.bucket.tokens]

\* a task may start a call: the calls made and in progress are below the bound
MayCall(t) ==
    /\ lim_pc[t] = "idle"
    /\ Len(lim_log) + Cardinality({u \in LimiterTasks : lim_pc[u] # "idle"}) < MaxLimiterCalls

\* self.bucket.lock().await of a mutex that is held: the task waits for it
AwaitLock(t, pc) ==
    /\ bucket_lock # "none"
    /\ lim_pc' = [lim_pc EXCEPT ![t] = pc]
    /\ UNCHANGED <<cfgVars, sinkVars, regVars, last, before, rcVars, streamVars, callerVars,
                   bucket, now, bucket_lock, lim_wake, lim_log>>

\* try_acquire() with the mutex: try_consume; the guard is dropped on return
TryAcquireLocked(t) ==
    /\ bucket_lock = "none"
    /\ LET r == try_consume(bucket, now)
       IN  /\ bucket' = r.bucket
           /\ lim_log' = Append(lim_log, LogEntry(t, "try_acquire", r))
    /\ lim_pc' = [lim_pc EXCEPT ![t] = "idle"]
    /\ UNCHANGED <<cfgVars, sinkVars, regVars, last, before, rcVars, streamVars, callerVars,
                   now, bucket_lock, lim_wake>>

\* acquire() with the mutex: the guard lives until acquire() returns
AcquireLocked(t) ==
    /\ bucket_lock = "none"
    /\ bucket_lock' = t
    /\ lim_pc' = [lim_pc EXCEPT ![t] = "acq_try"]
    /\ UNCHANGED <<cfgVars, sinkVars, regVars, last, before, rcVars, streamVars, callerVars,
                   bucket, now, lim_wake, lim_log>>

\* a task calls try_acquire(): it goes on at once if the mutex is free
CallTryAcquire(t) ==
    /\ MayCall(t)
    /\ TryAcquireLocked(t) \/ AwaitLock(t, "try_lock")

\* a task calls acquire()
CallAcquire(t) ==
    /\ MayCall(t)
    /\ AcquireLocked(t) \/ AwaitLock(t, "acq_lock")

\* a waiting try_acquire() gets the mutex
TryAcquire(t) ==
    /\ lim_pc[t] = "try_lock"
    /\ TryAcquireLocked(t)

\* a waiting acquire() gets the mutex
AcquireLock(t) ==
    /\ lim_pc[t] = "acq_lock"
    /\ AcquireLocked(t)

\* wait_and_consume(): one turn of the loop, the guard of acquire() still held
AcquireTry(t) ==
    /\ lim_pc[t] = "acq_try"
    /\ bucket_lock = t
    /\ LET r == try_consume(bucket, now)
       IN  /\ bucket' = r.bucket
           /\ lim_log' = Append(lim_log, LogEntry(t, "acquire", r))
           /\ IF r.ok
              THEN /\ bucket_lock' = "none"
                   /\ lim_pc' = [lim_pc EXCEPT ![t] = "idle"]
                   /\ UNCHANGED lim_wake
              ELSE /\ lim_pc' = [lim_pc EXCEPT ![t] = "acq_sleep"]
                   /\ lim_wake' = [lim_wake EXCEPT ![t] = now + time_until_available(r.bucket)]
                   /\ UNCHANGED bucket_lock
    /\ UNCHANGED <<cfgVars, sinkVars, regVars, last, before, rcVars, streamVars, callerVars, now>>

\* tokio::time::sleep(wait_time) has ended
AcquireWake(t) ==
    /\ lim_pc[t] = "acq_sleep"
    /\ now >= lim_wake[t]
    /\ lim_pc' = [lim_pc EXCEPT ![t] = "acq_try"]
    /\ UNCHANGED <<cfgVars, sinkVars, regVars, last, before, rcVars, streamVars, callerVars,
                   bucket, now, bucket_lock, lim_wake, lim_log>>

\* a task that can take its next step without waiting for time or for the mutex
CanRun(t) ==
    \/ lim_pc[t] \in {"try_lock", "acq_lock"} /\ bucket_lock = "none"
    \/ lim_pc[t] = "acq_try"
    \/ lim_pc[t] = "acq_sleep" /\ now >= lim_wake[t]

\* the clock advances when no task can run
Tick ==
    /\ now < MaxTime
    /\ \A t \in LimiterTasks : ~CanRun(t)
    /\ now' = now + 1
    /\ UNCHANGED <<cfgVars, sinkVars, regVars, last, before, rcVars, streamVars, callerVars,
                   bucket, bucket_lock, lim_pc, lim_wake, lim_log>>

\* RateLimiter::new(TokenBucket::new(N, rate)) with a whole number N of tokens
InitLimiter ==
    /\ credentials = FALSE
    /\ auto_reconnect = FALSE
    /\ max_retries = 0
    /\ built = TRUE
    /\ builder_calls = <<>>
    /\ public_sink = "None"
    /\ user_sink = "None"
    /\ subscriptions = Subscriptions_new
    /\ accepted = AsSets(subscriptions)
    /\ issued = AsSets(subscriptions)
    /\ last = NoCall
    /\ before = Subscriptions_new
    /\ RcIdle
    /\ NoStream
    /\ now = 0
    /\ \E n \in 1..MaxCapacity : \E rate \in 1..TokenUnit :
           bucket = TokenBucket_new(n * TokenUnit, rate, now)
    /\ bucket_lock = "none"
    /\ lim_pc = [t \in LimiterTasks |-> "idle"]
    /\ lim_wake = [t \in LimiterTasks |-> 0]
    /\ lim_log = <<>>
    /\ NoCallers

NextLimiter ==
    \/ \E t \in LimiterTasks : CallTryAcquire(t)
    \/ \E t \in LimiterTasks : CallAcquire(t)
    \/ \E t \in LimiterTasks : TryAcquire(t)
    \/ \E t \in LimiterTasks : AcquireLock(t)
    \/ \E t \in LimiterTasks : AcquireTry(t)
    \/ \E t \in LimiterTasks : AcquireWake(t)
    \/ Tick

SpecLimiter == InitLimiter /\ [][NextLimiter]_vars

\* the try_consume calls made before any time elapsed
AtCreation == SelectSeq(lim_log, LAMBDA e : e.at = 0)

\* C21: a bucket of capacity N starts with N tokens; with no time elapsing
\* the first N try_consume calls (of try_acquire or of acquire) succeed and
\* every later one fails; the token count stays between 0 and the capacity;
\* and a try_consume that failed removed no token.
C21_TokenBucketBounds ==
    /\ lim_log = <<>> => bucket.tokens = bucket.max_tokens
    /\ \A i \in 1..Len(AtCreation) :
           AtCreation[i].ok <=> (i * TokenUnit <= bucket.max_tokens)
    /\ bucket.tokens >= 0
    /\ bucket.tokens <= bucket.max_tokens
    /\ \A i \in 1..Len(lim_log) :
           /\ lim_log[i].tokens \in 0..bucket.max_tokens
           /\ ~lim_log[i].ok => lim_log[i].tokens >= lim_log[i].was
           /\ lim_log[i].ok => lim_log[i].tokens >= lim_log[i].was - TokenUnit

\* C21 witness: a bucket of two tokens gave two at creation and refused the
\* third call; after a refill a call succeeded again.
C21_Witness ==
    /\ bucket.max_tokens = 2 * TokenUnit
    /\ Len(lim_log) = 4
    /\ lim_log[1].ok /\ lim_log[2].ok /\ ~lim_log[3].ok
    /\ lim_log[3].at = 0
    /\ lim_log[3].tokens = lim_log[3].was
    /\ lim_log[4].ok /\ lim_log[4].at > 0

(***************************************************************************)
(* Concurrent callers: two tasks call subscribe and unsubscribe on one     *)
(* client. subscribe_one and unsubscribe_one write their frame under the   *)
(* lock of the sink, release it, and only then take the lock of the        *)
(* registry: another task may run between the two.                         *)
(***************************************************************************)
\* the first half of subscribe_one / unsubscribe_one: the checks, the frame
\* and send_message(&endpoint, msg).await?
CallerSend(k, op, channel, o) ==
    /\ caller_pc[k] = "idle"
    /\ caller_call[k].op = "none"
    /\ LET r == IF op = "subscribe"
                THEN subscribe_one(credentials, Start, channel, o)
                ELSE unsubscribe_one(credentials, Start, channel, o)
       IN  /\ public_sink' = r.sinks.Public
           /\ user_sink' = r.sinks.User
           /\ sink_order' = sink_order \o
                  [i \in 1..Len(r.frames) |-> [caller |-> k, frame |-> r.frames[i]]]
           /\ caller_pc' = [caller_pc EXCEPT ![k] = IF r.result = "Ok" THEN "sent" ELSE "done"]
           /\ caller_call' = [caller_call EXCEPT ![k] =
                  [op |-> op, channel |-> channel,
                   result |-> IF r.result = "Ok" THEN "none" ELSE r.result]]
    /\ UNCHANGED <<cfgVars, limiterVars, regVars, last, before, rcVars, streamVars>>

\* the second half: the registry is locked and updated, and the call returns Ok
CallerTrack(k) ==
    /\ caller_pc[k] = "sent"
    /\ LET channel == caller_call[k].channel
       IN  IF caller_call[k].op = "subscribe"
           THEN /\ subscriptions' = add(subscriptions, channel)
                /\ accepted' = SetAdd(accepted, channel)
                /\ issued' = SetAdd(issued, channel)
           ELSE /\ subscriptions' = remove(subscriptions, channel)
                /\ accepted' = SetRemove(accepted, channel)
                /\ issued' = SetRemove(issued, channel)
    /\ caller_pc' = [caller_pc EXCEPT ![k] = "done"]
    /\ caller_call' = [caller_call EXCEPT ![k].result = "Ok"]
    /\ UNCHANGED <<cfgVars, limiterVars, sinkVars, last, before, rcVars, streamVars, sink_order>>

\* a connected client with some subscriptions, no reconnect configured
InitCallers == InitConnected(0)

NextCallers ==
    \/ \E k \in Callers : \E op \in {"subscribe", "unsubscribe"} : \E c \in SessionChannels :
           \E outs \in OutcomesFor(<<c>>) : CallerSend(k, op, c, outs[1])
    \/ \E k \in Callers : CallerTrack(k)
    \/ \E endpoint \in EndpointTypes : SocketDrop(endpoint)

SpecCallers == InitCallers /\ [][NextCallers]_vars

\* the registry holds a channel: its key is present with all its product ids
Registered(subs, channel) ==
    /\ HasEntry(subs, channel)
    /\ Range(product_ids(channel)) \subseteq IdsOf(subs, channel)

\* the position of a caller's frame among the frames written
WrittenAt(k) == CHOOSE i \in 1..Len(sink_order) : sink_order[i].caller = k

\* caller s has subscribed and caller u unsubscribed the same channel, and
\* both calls have returned Ok
BothSucceeded(s, u) ==
    /\ caller_pc[s] = "done"
    /\ caller_pc[u] = "done"
    /\ caller_call[s].op = "subscribe"
    /\ caller_call[u].op = "unsubscribe"
    /\ caller_call[s].channel = caller_call[u].channel
    /\ caller_call[s].result = "Ok"
    /\ caller_call[u].result = "Ok"

\* C28: when a subscribe and an unsubscribe of the same channel ran
\* concurrently and both succeeded, the channel is registered exactly if the
\* subscribe frame was written to the sink after the unsubscribe frame.
C28_RegistryFollowsWireOrder ==
    \A s, u \in Callers :
        BothSucceeded(s, u) =>
            (Registered(subscriptions, caller_call[s].channel) <=> WrittenAt(s) > WrittenAt(u))

\* the step lets time pass
TimePasses == now' > now

\* C22: try_acquire answers at once: no time passes while a try_acquire call
\* is waiting, whatever the other task is doing inside acquire().
C22_TryAcquireNeverWaits ==
    [][TimePasses => \A t \in LimiterTasks : lim_pc[t] # "try_lock"]_vars

====
